---- MODULE Spec2Model ----
(***************************************************************************)
(* Device status state machine, site aggregation and incident escalation   *)
(* of the moose backend (backend/lambda/*.py), modelled as a state         *)
(* machine over the DynamoDB table, the SNS topic, the EventBridge         *)
(* schedules and the SES channel.                                          *)
(*                                                                         *)
(* Vocabulary: the source stores device statuses as 'green' (healthy),     *)
(* 'red' (fault) and 'Moon' (dormant); site statuses as 'green', 'red',    *)
(* 'moon'; incident statuses as 'pending', 'dismissed', 'processed' (set   *)
(* by the timer handler: the escalated state of the design) and            *)
(* 'escalated' (set by a recipient action).                                *)
(***************************************************************************)
EXTENDS Integers, Sequences, FiniteSets, TLC

(***************************************************************************)
(* Bounds of the model.                                                    *)
(***************************************************************************)
\* longest list of fault events the provider returns in one lookup
MaxMsgs == 2
\* the clock runs from 0 to MaxTime
MaxTime == 2

(***************************************************************************)
(* Values.                                                                 *)
(***************************************************************************)
\* Python None where a timestamp is expected (lastUpdated, lastStatusChangeTime)
NoneTime == -1
\* Python None for red_error_code
NoCode == -1

Devices == {"d1", "d2"}
Systems == {"s1"}
\* pvSystemId of every inverter: both inverters belong to one site
SystemOf(d) == "s1"

Statuses == {"green", "red", "Moon"}
\* instantaneous power readings: negative, zero, positive
Powers == {-5, 0, 150}
\* provider state codes: 0 is a falsy code, 1 and 2 are truthy codes
Codes == 0 .. 4
\* f'error code: {red_error_code}'
ErrorReason(c) ==
    CASE c = 0 -> "error code: 0"
      [] c = 1 -> "error code: 1"
      [] c = 2 -> "error code: 2"
      [] c = 3 -> "error code: 3"
      [] OTHER -> "error code: 4"
MoonReason == "no production during moon time"
NoProductionReason == "no production"
Reasons == {"", NoProductionReason, MoonReason} \cup {ErrorReason(c) : c \in Codes}

\* the code -> colour table of the severity reference: 0, 1, 2 are red,
\* 3 is yellow, 4 is not in the table
SupabaseCodes == [c \in 0 .. 3 |-> IF c = 3 THEN "yellow" ELSE "red"]
\* what get_all_error_codes_from_supabase returns: the table, or {} on failure
EmptyMap == [c \in {} |-> "red"]
ColorMaps == {SupabaseCodes, EmptyMap}
\* color_map.get(error_code)
ColorGet(color_map, c) == IF c \in DOMAIN color_map THEN color_map[c] ELSE "None"

\* lists of fault events (their stateCode) of length at most MaxMsgs
RECURSIVE SeqsUpTo(_, _)
SeqsUpTo(S, n) ==
    IF n = 0 THEN {<< >>}
    ELSE LET shorter == SeqsUpTo(S, n - 1)
         IN shorter \cup {Append(s, x) : s \in {t \in shorter : Len(t) = n - 1}, x \in S}
MessageLists == SeqsUpTo(Codes, MaxMsgs)

(***************************************************************************)
(* State.                                                                  *)
(***************************************************************************)
VARIABLES
    now,            \* datetime.utcnow(), in minutes
    inverters,      \* the inverters the sweep lists (get_all_inverters)
    subscribers,    \* the lambdas subscribed to the SNS topic
    systemProfile,  \* table items System#<s> / PROFILE: timeZone
    userAccess,     \* users linked to the site (user-system-index)
    deviceStatus,   \* table items Inverter#<d> / STATUS
    topic,          \* SNS deliveries in flight: <<subscriber, message>>
    published,      \* number of change events published so far
    cycle,          \* locals of the last process_device_status run
    engine,         \* inputs and outputs of the classification block
    systemStatus,   \* table items System#<s> / STATUS
    dailyStatus,    \* table items <id> / DAILYSTATUS#<date>: historicStatus
    agg,            \* running invocations of the update_status lambda
    incidents,      \* table items Incident#<id> / User#<u>
    schedules,      \* EventBridge one-shot schedules
    invocations,    \* invocations the scheduler has made, not yet started
    handler,        \* running invocations of the notify_technician lambda
    emails,         \* escalation emails SES accepted, per incident
    polling,        \* the running process_devices_concurrently, if any
    flow,           \* the running get_device_flowdata of a cycle, if any
    window,         \* the running is_moon_time of a cycle, if any
    pool,           \* the batches and workers of the running sweep, if any
    cache,          \* the module's token and error-code caches, their users
    reminder,       \* the running process_red_code_reminders, if any
    sweeps          \* the runs of process_red_code_reminders that returned

\* the deployment, the polling side, the aggregation side
configVars == <<inverters, subscribers, systemProfile, userAccess>>
pollVars == <<deviceStatus, topic, published>>
aggVars == <<systemStatus, dailyStatus, agg>>
incidentVars == <<incidents, schedules, invocations, handler, emails>>
reminderVars == <<reminder, sweeps>>

vars ==
    <<now, configVars, pollVars, cycle, engine, aggVars, incidentVars, polling,
      flow, window, pool, cache, reminderVars>>

\* the item get_device_status_from_db returns when there is none, or on error
DefaultStatus ==
    [present |-> FALSE, status |-> "green", reason |-> "",
     lastUpdated |-> NoneTime, lastStatusChangeTime |-> NoneTime]

(***************************************************************************)
(* Device Status Engine: process_device_status, classification block.      *)
(***************************************************************************)
\* the loop without its break: the last code mapped to 'red' wins
RECURSIVE FirstRedCode_NoBreak(_, _)
FirstRedCode_NoBreak(messages, color_map) ==
    IF messages = << >> THEN NoCode
    ELSE LET later == FirstRedCode_NoBreak(Tail(messages), color_map)
         IN IF later # NoCode THEN later
            ELSE IF ColorGet(color_map, Head(messages)) = "red" THEN Head(messages)
            ELSE NoCode

\* the loop over messages_response['messages']: first code mapped to 'red'
RECURSIVE FirstRedCode(_, _)
FirstRedCode(messages, color_map) ==
    IF messages = << >> THEN NoCode
    ELSE IF ColorGet(color_map, Head(messages)) = "red" THEN Head(messages)
    ELSE FirstRedCode(Tail(messages), color_map)

\* Python truthiness of red_error_code: None and 0 are falsy
Truthy(code) == code # NoCode /\ code # 0

\* MoonTimeLogic with the last branch lost: green with no power stays green
MoonTimeLogic_NoDormant(current_status, current_reason, power) ==
    IF current_status = "red" /\ power = 0 THEN <<"red", current_reason>>
    ELSE IF current_status = "red" /\ power > 0 THEN <<"green", "">>
    ELSE IF current_status = "Moon" /\ power = 0 THEN <<"Moon", current_reason>>
    ELSE IF current_status = "Moon" /\ power > 0 THEN <<"green", "">>
    ELSE <<current_status, current_reason>>

\* moon time branch, lines 840-870
MoonTimeLogic(current_status, current_reason, power) ==
    IF current_status = "red" /\ power = 0 THEN <<"red", current_reason>>
    ELSE IF current_status = "red" /\ power > 0 THEN <<"green", "">>
    ELSE IF current_status = "Moon" /\ power = 0 THEN <<"Moon", current_reason>>
    ELSE IF current_status = "Moon" /\ power > 0 THEN <<"green", "">>
    ELSE IF current_status = "green" /\ power > 0 THEN <<"green", current_reason>>
    ELSE IF current_status = "green" /\ power = 0 THEN <<"Moon", MoonReason>>
    ELSE <<current_status, current_reason>>

\* daylight branch taking a reading of zero for production
DaylightLogic_ZeroIsPower(power, messages, color_map) ==
    IF power >= 0 THEN <<"green", "">>
    ELSE LET red_error_code == FirstRedCode(messages, color_map)
         IN IF Truthy(red_error_code)
            THEN <<"red", ErrorReason(red_error_code)>>
            ELSE <<"red", NoProductionReason>>

\* daylight branch, lines 872-919
DaylightLogic(power, messages, color_map) ==
    IF power > 0 THEN <<"green", "">>
    ELSE LET red_error_code == FirstRedCode(messages, color_map)
         IN IF Truthy(red_error_code)
            THEN <<"red", ErrorReason(red_error_code)>>
            ELSE <<"red", NoProductionReason>>

\* the classification with new_reason left alone on the way to green
Classify_KeepReason(current_status, current_reason, power, is_moon_time_period, messages, color_map) ==
    LET r == IF is_moon_time_period
             THEN MoonTimeLogic(current_status, current_reason, power)
             ELSE DaylightLogic(power, messages, color_map)
    IN <<r[1], IF r[1] = "green" THEN current_reason ELSE r[2]>>

\* (new_status, new_reason) of process_device_status
Classify(current_status, current_reason, power, is_moon_time_period, messages, color_map) ==
    IF is_moon_time_period
    THEN MoonTimeLogic(current_status, current_reason, power)
    ELSE DaylightLogic(power, messages, color_map)

(***************************************************************************)
(* The classification block on its own: inputs drawn from the bounded      *)
(* sets, one action applying it.                                           *)
(***************************************************************************)
EngineInputs ==
    [pc : {"in"}, current_status : Statuses, current_reason : Reasons,
     power : Powers, is_moon_time_period : BOOLEAN,
     messages : MessageLists, color_map : ColorMaps,
     new_status : {"green"}, new_reason : {""}]

ApplyClassify ==
    /\ engine.pc = "in"
    /\ LET r == Classify(engine.current_status, engine.current_reason, engine.power,
                         engine.is_moon_time_period, engine.messages, engine.color_map)
       IN engine' = [engine EXCEPT !.pc = "out", !.new_status = r[1], !.new_reason = r[2]]
    /\ UNCHANGED <<now, configVars, polling, flow, window, pool, cache, reminderVars, pollVars, cycle, aggVars, incidentVars>>

(***************************************************************************)
(* Status Store: get_device_status_from_db, update_device_status_in_db.    *)
(***************************************************************************)
\* get_device_status_from_db: the item, the default when missing or on error
GetDeviceStatus(d, readOk) ==
    IF readOk /\ deviceStatus[d].present THEN deviceStatus[d] ELSE DefaultStatus

\* update_device_status_in_db stamping lastUpdated only when nothing changed
StatusItem_StaleUpdated(d, status, reason, status_changed, rereadOk) ==
    [present |-> TRUE, status |-> status, reason |-> reason,
     lastUpdated |->
        IF status_changed THEN GetDeviceStatus(d, TRUE).lastUpdated ELSE now,
     lastStatusChangeTime |->
        IF status_changed THEN now
        ELSE GetDeviceStatus(d, rereadOk).lastStatusChangeTime]

\* the item update_device_status_in_db puts; of its attributes the model keeps
\* those some lambda reads back (pvSystemId is SystemOf, power is never read)
StatusItem(d, status, reason, status_changed, rereadOk) ==
    [present |-> TRUE, status |-> status, reason |-> reason,
     lastUpdated |-> now,
     lastStatusChangeTime |->
        IF status_changed THEN now
        ELSE GetDeviceStatus(d, rereadOk).lastStatusChangeTime]

(***************************************************************************)
(* Change Publisher: send_device_status_change_sns.                        *)
(***************************************************************************)
Subscribers == {"update_status", "notify_user"}

\* timeZone of a system profile; "None" when the profile has none
Timezones == {"America/New_York", "None"}

\* get_system_timezone; a read that fails returns what a profile without
\* timeZone returns
GetSystemTimezone(pv_system_id) == systemProfile[pv_system_id]

\* the message send_device_status_change_sns publishes (power, which no
\* subscriber acts on, left out)
ChangeMessage(d, new_status, previous_status, new_reason, previous_reason, system_timezone) ==
    [deviceId |-> d, pvSystemId |-> SystemOf(d),
     newStatus |-> new_status, previousStatus |-> previous_status,
     newReason |-> new_reason, previousReason |-> previous_reason,
     timestamp |-> now, timezone |-> system_timezone, type |-> "Status Changed"]

\* sns.publish: one delivery to every subscribed lambda
Publish(m) == topic \cup {<<sub, m>> : sub \in subscribers}

(***************************************************************************)
(* One polling cycle: process_device_status.                               *)
(***************************************************************************)
NoCycle ==
    [n |-> 0, device |-> "d1", power |-> 0, is_moon_time_period |-> FALSE,
     red_error_code |-> NoCode, readOk |-> TRUE,
     current_status |-> "green", current_reason |-> "",
     new_status |-> "green", new_reason |-> "",
     status_changed |-> FALSE, update_success |-> FALSE, sns_success |-> FALSE]

\* process_device_status publishing without looking at update_success
CycleRecord_PublishAnyway(d, power, is_moon_time_period, messages, color_map, readOk, rereadOk, writeOk, snsOk) ==
    LET cur == GetDeviceStatus(d, readOk)
        r == Classify(cur.status, cur.reason, power, is_moon_time_period,
                      messages, color_map)
        status_changed == (r[1] # cur.status) \/ (r[2] # cur.reason)
    IN [n |-> cycle.n + 1, device |-> d, power |-> power,
        is_moon_time_period |-> is_moon_time_period,
        red_error_code |-> FirstRedCode(messages, color_map), readOk |-> readOk,
        current_status |-> cur.status, current_reason |-> cur.reason,
        new_status |-> r[1], new_reason |-> r[2],
        status_changed |-> status_changed,
        update_success |-> writeOk,
        sns_success |-> status_changed /\ snsOk]

\* the locals of process_device_status when it returns
CycleRecord(d, power, is_moon_time_period, messages, color_map, readOk, rereadOk, writeOk, snsOk) ==
    LET cur == GetDeviceStatus(d, readOk)
        r == Classify(cur.status, cur.reason, power, is_moon_time_period,
                      messages, color_map)
        status_changed == (r[1] # cur.status) \/ (r[2] # cur.reason)
    IN [n |-> cycle.n + 1, device |-> d, power |-> power,
        is_moon_time_period |-> is_moon_time_period,
        red_error_code |-> FirstRedCode(messages, color_map), readOk |-> readOk,
        current_status |-> cur.status, current_reason |-> cur.reason,
        new_status |-> r[1], new_reason |-> r[2],
        status_changed |-> status_changed,
        update_success |-> writeOk,
        sns_success |-> status_changed /\ writeOk /\ snsOk]

\* process_device_status for one inverter: its writes and its publication
ProcessDeviceStatus(d, power, is_moon_time_period, messages, color_map, readOk, rereadOk, writeOk, snsOk) ==
    LET c == CycleRecord(d, power, is_moon_time_period, messages, color_map,
                         readOk, rereadOk, writeOk, snsOk)
    IN /\ deviceStatus' =
            IF c.update_success
            THEN [deviceStatus EXCEPT ![d] =
                    StatusItem(d, c.new_status, c.new_reason,
                               c.status_changed, rereadOk)]
            ELSE deviceStatus
       /\ topic' =
            IF c.sns_success
            THEN Publish(ChangeMessage(d, c.new_status, c.current_status,
                                       c.new_reason, c.current_reason,
                                       GetSystemTimezone(SystemOf(d))))
            ELSE topic
       /\ published' = IF c.sns_success THEN published + 1 ELSE published
       /\ UNCHANGED <<now, configVars, reminderVars, engine, aggVars, incidentVars>>

\* fault lookups of the polling cycles: no event, or a yellow then a red event
PollMessageLists == {<< >>, <<3, 1>>}

\* bound on the polling cycles whose locals are recorded
MaxCycles == 3
\* bound on the change events published in one behaviour
MaxEvents == 2

\* readings of the polling cycles that feed the subscribers: none, some
SweepPowers == {0, 150}

\* a polling cycle that feeds the subscribers, the fault lookup returning
\* messages, the read of update_device_status_in_db succeeding as in rereads
\* and the publication as in publishes
PollOver(messages, rereads, publishes) ==
    \E d \in inverters, power \in SweepPowers, is_moon_time_period \in BOOLEAN,
       readOk \in BOOLEAN, rereadOk \in rereads, writeOk \in BOOLEAN, snsOk \in publishes :
        /\ published < MaxEvents
        /\ ProcessDeviceStatus(d, power, is_moon_time_period, messages, SupabaseCodes,
                               readOk, rereadOk, writeOk, snsOk)
        /\ UNCHANGED <<cycle, polling, flow, window, pool, cache>>

PollWith(messages) == PollOver(messages, {TRUE}, BOOLEAN)

\* no fault event is returned, the second read may fail
RereadPoll == PollOver(<< >>, BOOLEAN, BOOLEAN)

\* such a cycle while no delivery is in flight
QuietPoll == topic = {} /\ RereadPoll

\* no fault event is returned, every event of a change is published
AnnouncedPoll == PollOver(<< >>, {TRUE}, {TRUE})

\* no fault event is returned
Poll == PollWith(<< >>)

\* one fault event is returned, its code a red one
FaultPoll == PollWith(<<1>>)

\* a polling cycle, its locals recorded in cycle
TracedPoll ==
    \E d \in inverters, power \in Powers, is_moon_time_period \in BOOLEAN,
       messages \in PollMessageLists, color_map \in {SupabaseCodes},
       readOk \in BOOLEAN, rereadOk \in BOOLEAN, writeOk \in BOOLEAN, snsOk \in BOOLEAN :
        /\ cycle.n < MaxCycles
        /\ ProcessDeviceStatus(d, power, is_moon_time_period, messages, color_map,
                               readOk, rereadOk, writeOk, snsOk)
        /\ cycle' = CycleRecord(d, power, is_moon_time_period, messages, color_map,
                                readOk, rereadOk, writeOk, snsOk)
        /\ UNCHANGED <<polling, flow, window, pool, cache>>

(***************************************************************************)
(* Telemetry retrieval: get_device_flowdata over api_request, and the      *)
(* power process_device_status takes from it.                              *)
(***************************************************************************)
\* MAX_RETRIES as the environment leaves it, max_attempts of
\* get_device_flowdata
MAX_RETRIES == 3
max_attempts == 5

\* 'data' of a flowdata body that is null
NoData == -1

\* what api_request returns: the JSON body of the provider (isOnline of its
\* 'status', the power of its 'data' channels), {} for status 204, None
\* when its loop ends without a return
Body(is_online, data) == [kind |-> "json", isOnline |-> is_online, data |-> data]
EmptyBody == [kind |-> "{}", isOnline |-> FALSE, data |-> NoData]
NoneBody == [kind |-> "None", isOnline |-> FALSE, data |-> NoData]
Bodies == {Body(o, x) : o \in BOOLEAN, x \in {NoData} \cup SweepPowers}

\* one requests.get of api_request: a body, status 204, status 429, a
\* RequestException (timeout, connection error, 5xx), another exception
HttpOutcomes == {"200", "204", "429", "timeout", "error"}

\* no get_device_flowdata running; of one, attempt is the loop variable of
\* get_device_flowdata, tries the loop variable of the api_request it is in,
\* response what api_request returned last, raised how api_request raised
IdleFlow ==
    [pc |-> "idle", device |-> "d1", attempt |-> 0, tries |-> 0,
     response |-> NoneBody, raised |-> "no"]

\* the test of get_device_flowdata with no limit on the attempts
NeedsRetry_NoLimit(response, attempt) ==
    response.isOnline /\ response.data = NoData

\* the test of get_device_flowdata: online, data null, attempts left
NeedsRetry(response, attempt) ==
    response.isOnline /\ response.data = NoData /\ attempt < max_attempts

\* get_device_flowdata once api_request has returned response: sleep and
\* call again, or return the response
Evaluate(f, response) ==
    IF NeedsRetry(response, f.attempt)
    THEN [f EXCEPT !.attempt = @ + 1, !.tries = 0, !.response = response]
    ELSE [f EXCEPT !.pc = "done", !.response = response]

\* api_request raises: get_device_flowdata logs and returns {}
ApiRaise(f, how) == [f EXCEPT !.pc = "done", !.response = EmptyBody, !.raised = how]

\* the loop of api_request going on after every RequestException
ApiRequestStep_NoLimit(f, http, body) ==
    CASE http = "200" -> Evaluate(f, body)
      [] http = "204" -> Evaluate(f, EmptyBody)
      [] http = "429" -> IF f.tries + 1 < MAX_RETRIES
                         THEN [f EXCEPT !.tries = @ + 1]
                         ELSE Evaluate(f, NoneBody)
      [] http = "timeout" -> [f EXCEPT !.tries = @ + 1]
      [] OTHER -> ApiRaise(f, "unexpected")

\* one iteration of the loop of api_request, and what follows its return
ApiRequestStep(f, http, body) ==
    CASE http = "200" -> Evaluate(f, body)
      [] http = "204" -> Evaluate(f, EmptyBody)
      [] http = "429" -> IF f.tries + 1 < MAX_RETRIES
                         THEN [f EXCEPT !.tries = @ + 1]
                         ELSE Evaluate(f, NoneBody)
      [] http = "timeout" -> IF f.tries < MAX_RETRIES - 1
                             THEN [f EXCEPT !.tries = @ + 1]
                             ELSE ApiRaise(f, "exhausted")
      [] OTHER -> ApiRaise(f, "unexpected")

\* power of process_device_status: offline, no flowdata or null data is 0
FlowPower(flowdata) ==
    IF flowdata.kind = "json" /\ flowdata.isOnline /\ flowdata.data # NoData
    THEN flowdata.data
    ELSE 0

\* process_device_status calls get_device_flowdata
FlowStart ==
    \E d \in inverters :
        /\ flow.pc = "idle"
        /\ cycle.n < MaxCycles
        /\ flow' = [IdleFlow EXCEPT !.pc = "request", !.device = d, !.attempt = 1]
        /\ UNCHANGED <<now, configVars, pollVars, cycle, engine, aggVars, incidentVars,
                       polling, window, pool, cache, reminderVars>>

\* one request of the provider
FlowRequest ==
    \E http \in HttpOutcomes, body \in Bodies :
        /\ flow.pc = "request"
        /\ flow' = ApiRequestStep(flow, http, body)
        /\ UNCHANGED <<now, configVars, pollVars, cycle, engine, aggVars, incidentVars,
                       polling, window, pool, cache, reminderVars>>

\* the rest of process_device_status with the flowdata returned; raised is
\* kept for the observer
FlowCycle ==
    \E is_moon_time_period \in BOOLEAN, messages \in PollMessageLists,
       readOk \in BOOLEAN, rereadOk \in BOOLEAN, writeOk \in BOOLEAN, snsOk \in BOOLEAN :
        /\ flow.pc = "done"
        /\ ProcessDeviceStatus(flow.device, FlowPower(flow.response), is_moon_time_period,
                               messages, SupabaseCodes, readOk, rereadOk, writeOk, snsOk)
        /\ cycle' = CycleRecord(flow.device, FlowPower(flow.response), is_moon_time_period,
                                messages, SupabaseCodes, readOk, rereadOk, writeOk, snsOk)
        /\ flow' = [IdleFlow EXCEPT !.raised = flow.raised]
        /\ UNCHANGED <<polling, window, pool, cache>>

(***************************************************************************)
(* Site Aggregator: the update_status lambda. An invocation is a process   *)
(* whose steps are its table calls, so that invocations may overlap.       *)
(***************************************************************************)
\* concurrent invocations of one lambda
MaxConcurrent == 2
Slots == 1 .. MaxConcurrent

\* minutes of a day, and of the UTC offsets of get_local_date_from_utc
MinutesPerDay == 1440
MinutesPerHour == 60
\* the clock starts on 1970-01-01 00:00 UTC; dst_start and dst_end of that
\* year (second Sunday of March and first Sunday of November, 2 AM), in minutes
DstStart == 95160
DstEnd == 437880

\* is_daylight_saving_time
IsDaylightSavingTime(dt) == DstStart <= dt /\ dt < DstEnd

\* get_local_date_from_utc: the day the local time falls on
LocalDate(utc_timestamp, system_timezone) ==
    LET is_dst == IsDaylightSavingTime(utc_timestamp)
        offset_hours ==
            IF system_timezone = "America/New_York" THEN (IF is_dst THEN 4 ELSE 5)
            ELSE IF system_timezone = "America/Chicago" THEN (IF is_dst THEN 5 ELSE 6)
            ELSE 0
    IN (utc_timestamp - offset_hours * MinutesPerHour) \div MinutesPerDay

Dates == {LocalDate(t, z) : t \in 0 .. MaxTime, z \in Timezones}
DailyKeys == (Devices \cup Systems) \X Dates

\* the record get_current_system_status returns when there is none, or on error
DefaultSystemStatus ==
    [present |-> FALSE, status |-> "moon", GreenInverters |-> {},
     RedInverters |-> {}, MoonInverters |-> {}, TotalInverters |-> 0,
     lastUpdated |-> NoneTime]

\* get_current_system_status
GetCurrentSystemStatus(system_id, readOk) ==
    IF readOk /\ systemStatus[system_id].present
    THEN systemStatus[system_id] ELSE DefaultSystemStatus

\* get_inverter_statuses: the scan, its items sorted by status; empty on error
GetInverterStatuses(system_id, scanOk) ==
    LET items == {d \in Devices : deviceStatus[d].present /\ SystemOf(d) = system_id}
    IN IF scanOk
       THEN [green |-> {d \in items : deviceStatus[d].status = "green"},
             red |-> {d \in items : deviceStatus[d].status = "red"},
             moon |-> {d \in items : deviceStatus[d].status \notin {"green", "red"}}]
       ELSE [green |-> {}, red |-> {}, moon |-> {}]

\* determine_system_status without its first test: a fault is not looked at
DetermineSystemStatus_NoRed(green_inverters, red_inverters, moon_inverters) ==
    IF Cardinality(moon_inverters) > 0 /\ Cardinality(green_inverters) = 0 THEN "moon"
    ELSE "green"

\* determine_system_status
DetermineSystemStatus(green_inverters, red_inverters, moon_inverters) ==
    IF Cardinality(red_inverters) > 0 THEN "red"
    ELSE IF Cardinality(moon_inverters) > 0 /\ Cardinality(green_inverters) = 0 THEN "moon"
    ELSE "green"

\* the record update_system_status puts
StatusRecord(green_inverters, red_inverters, moon_inverters) ==
    [present |-> TRUE,
     status |-> DetermineSystemStatus(green_inverters, red_inverters, moon_inverters),
     GreenInverters |-> green_inverters, RedInverters |-> red_inverters,
     MoonInverters |-> moon_inverters,
     TotalInverters |-> Cardinality(green_inverters) + Cardinality(red_inverters)
                        + Cardinality(moon_inverters),
     lastUpdated |-> now]

NoMessage ==
    [deviceId |-> "d1", pvSystemId |-> "s1", newStatus |-> "green",
     previousStatus |-> "green", newReason |-> "", previousReason |-> "",
     timestamp |-> 0, timezone |-> "None", type |-> "Status Changed"]

\* an invocation that is not running; of the invocation before it, returned
\* tells that there was one, msg is its message and inverter_statuses what
\* its scan returned, failed tells that a table call of it failed, overlapped
\* that the other invocation was running when it started
IdleAgg ==
    [pc |-> "idle", msg |-> NoMessage, historic_status |-> << >>,
     inverter_statuses |-> [green |-> {}, red |-> {}, moon |-> {}],
     current_status_record |-> DefaultSystemStatus,
     returned |-> FALSE, failed |-> FALSE, overlapped |-> FALSE]

\* invocation k has returned
ReturnedAgg(k) ==
    [IdleAgg EXCEPT !.returned = TRUE, !.msg = agg[k].msg,
                    !.inverter_statuses = agg[k].inverter_statuses,
                    !.overlapped = agg[k].overlapped]

\* lambda_handler: an SNS record arrives
AggReceive(k) ==
    \E delivery \in topic :
        /\ delivery[1] = "update_status"
        /\ agg[k].pc = "idle"
        /\ topic' = topic \ {delivery}
        /\ agg' = [agg EXCEPT ![k] =
                [IdleAgg EXCEPT !.pc = "log_get", !.msg = delivery[2],
                                !.overlapped = \E j \in Slots \ {k} : agg[j].pc # "idle"]]
        /\ UNCHANGED <<now, configVars, polling, flow, window, pool, cache, reminderVars, deviceStatus, published, cycle, engine,
                       systemStatus, dailyStatus, incidentVars>>

\* log_historical_status / log_system_daily_status: get_item of the day's record
DailyGet(k, id, from, to) ==
    \E getOk \in BOOLEAN :
        /\ agg[k].pc = from
        /\ LET m == agg[k].msg
               key == <<id, LocalDate(m.timestamp, m.timezone)>>
           IN agg' = [agg EXCEPT ![k].pc = to,
                                 ![k].failed = @ \/ ~getOk,
                                 ![k].historic_status =
                                     IF getOk THEN dailyStatus[key] ELSE << >>]
        /\ UNCHANGED <<now, configVars, polling, flow, window, pool, cache, reminderVars, pollVars, cycle, engine, systemStatus, dailyStatus,
                       incidentVars>>

\* log_historical_status / log_system_daily_status: append and put_item
DailyPut(k, id, status, from, next) ==
    \E putOk \in BOOLEAN :
        /\ agg[k].pc = from
        /\ LET m == agg[k].msg
               key == <<id, LocalDate(m.timestamp, m.timezone)>>
               status_entry == [status |-> status, time |-> m.timestamp]
           IN dailyStatus' =
                IF putOk
                THEN [dailyStatus EXCEPT ![key] = Append(agg[k].historic_status, status_entry)]
                ELSE dailyStatus
        /\ agg' = [agg EXCEPT ![k] = [next EXCEPT !.failed = agg[k].failed \/ ~putOk]]
        /\ UNCHANGED <<now, configVars, polling, flow, window, pool, cache, reminderVars, pollVars, cycle, engine, systemStatus, incidentVars>>

\* process_device_status_change: log_historical_status
AggLogGet(k) == DailyGet(k, agg[k].msg.deviceId, "log_get", "log_put")
AggLogPut(k) ==
    DailyPut(k, agg[k].msg.deviceId, agg[k].msg.newStatus, "log_put",
             [agg[k] EXCEPT !.pc = "scan", !.historic_status = << >>])

\* process_device_status_change: get_inverter_statuses
AggScan(k) ==
    \E scanOk \in BOOLEAN :
        /\ agg[k].pc = "scan"
        /\ agg' = [agg EXCEPT ![k].pc = "sys_get",
                              ![k].failed = @ \/ ~scanOk,
                              ![k].inverter_statuses =
                                  GetInverterStatuses(agg[k].msg.pvSystemId, scanOk)]
        /\ UNCHANGED <<now, configVars, polling, flow, window, pool, cache, reminderVars, pollVars, cycle, engine, systemStatus, dailyStatus,
                       incidentVars>>

\* update_system_status: get_current_system_status
AggSysGet(k) ==
    \E readOk \in BOOLEAN :
        /\ agg[k].pc = "sys_get"
        /\ agg' = [agg EXCEPT ![k].pc = "sys_put",
                              ![k].failed = @ \/ ~readOk,
                              ![k].current_status_record =
                                  GetCurrentSystemStatus(agg[k].msg.pvSystemId, readOk)]
        /\ UNCHANGED <<now, configVars, polling, flow, window, pool, cache, reminderVars, pollVars, cycle, engine, systemStatus, dailyStatus,
                       incidentVars>>

\* update_system_status comparing the status alone, not the three lists
AggSysPut_StatusOnly(k) ==
    \E putOk \in BOOLEAN :
        /\ agg[k].pc = "sys_put"
        /\ LET s == agg[k].inverter_statuses
               cur == agg[k].current_status_record
               rec == StatusRecord(s.green, s.red, s.moon)
               same == cur.status = rec.status
           IN /\ systemStatus' =
                    IF ~same /\ putOk
                    THEN [systemStatus EXCEPT ![agg[k].msg.pvSystemId] = rec]
                    ELSE systemStatus
              /\ agg' = [agg EXCEPT ![k] =
                    IF ~same /\ putOk /\ cur.status # rec.status
                    THEN [agg[k] EXCEPT !.pc = "syslog_get"]
                    ELSE [ReturnedAgg(k) EXCEPT !.failed = agg[k].failed \/ (~same /\ ~putOk)]]
        /\ UNCHANGED <<now, configVars, polling, flow, window, pool, cache, reminderVars, pollVars, cycle, engine, dailyStatus, incidentVars>>

\* update_system_status: the comparison, put_item, and whether the day's
\* record of the system is written
AggSysPut(k) ==
    \E putOk \in BOOLEAN :
        /\ agg[k].pc = "sys_put"
        /\ LET s == agg[k].inverter_statuses
               cur == agg[k].current_status_record
               rec == StatusRecord(s.green, s.red, s.moon)
               same == /\ cur.GreenInverters = s.green
                       /\ cur.RedInverters = s.red
                       /\ cur.MoonInverters = s.moon
                       /\ cur.status = rec.status
           IN /\ systemStatus' =
                    IF ~same /\ putOk
                    THEN [systemStatus EXCEPT ![agg[k].msg.pvSystemId] = rec]
                    ELSE systemStatus
              /\ agg' = [agg EXCEPT ![k] =
                    IF ~same /\ putOk /\ cur.status # rec.status
                    THEN [agg[k] EXCEPT !.pc = "syslog_get"]
                    ELSE [ReturnedAgg(k) EXCEPT !.failed = agg[k].failed \/ (~same /\ ~putOk)]]
        /\ UNCHANGED <<now, configVars, polling, flow, window, pool, cache, reminderVars, pollVars, cycle, engine, dailyStatus, incidentVars>>

\* update_system_status: log_system_daily_status
AggSysLogGet(k) == DailyGet(k, agg[k].msg.pvSystemId, "syslog_get", "syslog_put")
AggSysLogPut(k) ==
    DailyPut(k, agg[k].msg.pvSystemId,
             DetermineSystemStatus(agg[k].inverter_statuses.green,
                                   agg[k].inverter_statuses.red,
                                   agg[k].inverter_statuses.moon),
             "syslog_put", ReturnedAgg(k))

\* a step of invocation k of the update_status lambda
UpdateStatus(k) ==
        \/ AggReceive(k)
        \/ AggLogGet(k)
        \/ AggLogPut(k)
        \/ AggScan(k)
        \/ AggSysGet(k)
        \/ AggSysPut(k)
        \/ AggSysLogGet(k)
        \/ AggSysLogPut(k)

(***************************************************************************)
(* Incident Lifecycle Manager, creation: the notify_user lambda.           *)
(***************************************************************************)
\* ADMIN_USER_ID of get_users_with_system_access
AdminUserId == "04484418-1051-70ea-d0d3-afb45eadb6e7"
Users == {AdminUserId, "u1", "u2", "u3", "u4"}
\* the order in which the access query returns the user links
UserOrder == <<AdminUserId, "u1", "u2", "u3", "u4">>

\* table items User#<u> / PROFILE, attribute technician_email: u2 has blanks
TechnicianEmail(u) ==
    CASE u = "u1" -> "tech1@example.com"
      [] u = "u2" -> "  "
      [] u = "u3" -> "tech3@example.com"
      [] u = "u4" -> "tech4@example.com"
      [] OTHER -> "office@example.com"
\* str.strip()
Strip(s) == IF s = "  " THEN "" ELSE s
\* user_id[:8]
UserPrefix(user_id) == IF user_id = AdminUserId THEN "04484418" ELSE user_id

\* bounds on the incidents created in one behaviour, in all and for one
\* recipient
MaxIncidents == 2
MaxPerRecipient == 1
\* uuid4 values, as <<first 8 characters, rest>>; the values drawn here have
\* distinct first 8 characters
Uuids == {<<p, 0>> : p \in 1 .. MaxIncidents}
\* incident_id[:8]
IncidentPrefix(incident_id) == incident_id[1]
\* f"incident-{incident_id[:8]}-user-{user_id[:8]}"
ScheduleName(incident_id, user_id) == <<IncidentPrefix(incident_id), UserPrefix(user_id)>>

\* timedelta(hours=1) of expiresAt and timedelta(minutes=2) of schedule_time
ExpiryMinutes == 60
TimerMinutes == 2

NoIncident ==
    [present |-> FALSE, userId |-> "u1", systemId |-> "s1", deviceId |-> "d1",
     status |-> "none", expiresAt |-> NoneTime, newStatus |-> "none"]

\* incident_record of create_incident_record
IncidentRecord(user_id, system_id, device_id, new_status) ==
    [present |-> TRUE, userId |-> user_id, systemId |-> system_id,
     deviceId |-> device_id, status |-> "pending",
     expiresAt |-> now + ExpiryMinutes, newStatus |-> new_status]

\* get_users_with_system_access: the admin and the linked users, in order
GetUsersWithSystemAccess(system_id, queryOk) ==
    SelectSeq(UserOrder,
              LAMBDA u : u = AdminUserId \/ (queryOk /\ u \in userAccess))

\* the incidents created so far
Created(incs) == {id \in Uuids : incs[id].present}

\* create_technician_schedule: a name in use is refused on every attempt
CreateTechnicianSchedule(scheds, incident_id, user_id, schedOk) ==
    IF schedOk /\ \A s \in scheds : s.name # ScheduleName(incident_id, user_id)
    THEN scheds \cup {[name |-> ScheduleName(incident_id, user_id),
                       incident_id |-> incident_id, user_id |-> user_id,
                       schedule_time |-> now + TimerMinutes, fired |-> FALSE,
                       fired_device |-> "none"]}
    ELSE scheds

\* create_incident_record with a key that is not drawn afresh
CreateIncidentRecord_SameId(st, user_id, system_id, device_id, new_status, putOk, schedOk) ==
    IF ~putOk THEN st
    ELSE LET incident_id == <<1, 0>>
         IN [incidents |-> [st.incidents EXCEPT ![incident_id] =
                               IncidentRecord(user_id, system_id, device_id, new_status)],
             schedules |-> CreateTechnicianSchedule(st.schedules, incident_id,
                                                    user_id, schedOk)]

\* create_incident_record on the table and the scheduler st; putOk: one of
\* the three put_item attempts succeeds
CreateIncidentRecord(st, user_id, system_id, device_id, new_status, putOk, schedOk) ==
    IF ~putOk THEN st
    ELSE LET incident_id == <<Cardinality(Created(st.incidents)) + 1, 0>>
         IN [incidents |-> [st.incidents EXCEPT ![incident_id] =
                               IncidentRecord(user_id, system_id, device_id, new_status)],
             schedules |-> CreateTechnicianSchedule(st.schedules, incident_id,
                                                    user_id, schedOk)]

\* the loop over user_ids of process_status_change_notification; failed holds
\* the calls that fail, as <<user, call>>
RECURSIVE CreateIncidents(_, _, _, _)
CreateIncidents(user_ids, st, m, failed) ==
    IF user_ids = << >> THEN st
    ELSE LET user_id == Head(user_ids)
             technician_email ==
                 IF <<user_id, "profile">> \in failed THEN ""
                 ELSE Strip(TechnicianEmail(user_id))
             next ==
                 IF user_id # AdminUserId /\ technician_email # ""
                 THEN CreateIncidentRecord(st, user_id, m.pvSystemId, m.deviceId,
                                           m.newStatus,
                                           <<user_id, "put">> \notin failed,
                                           <<user_id, "schedule">> \notin failed)
                 ELSE st
         IN CreateIncidents(Tail(user_ids), next, m, failed)

\* the recipients for whom message m has create_incident_record called when
\* every read succeeds
Eligible(m) ==
    IF m.newStatus = "red"
    THEN {u \in userAccess \ {AdminUserId} : Strip(TechnicianEmail(u)) # ""}
    ELSE {}

\* lambda_handler of notify_user: one SNS record (the push notifications it
\* also sends write nothing and are left out); last is the latest instant
\* at which a timer it arms may be due, most the number of incidents one
\* recipient may come to have
NotifyUserUpTo(last, most) ==
    \E delivery \in topic, queryOk \in BOOLEAN :
      \E failed \in SUBSET (Eligible(delivery[2]) \X {"profile", "put", "schedule"}) :
        LET m == delivery[2]
            user_ids == IF m.newStatus = "red"
                        THEN GetUsersWithSystemAccess(m.pvSystemId, queryOk)
                        ELSE << >>
            st == CreateIncidents(user_ids,
                                  [incidents |-> incidents, schedules |-> schedules],
                                  m, failed)
        IN /\ delivery[1] = "notify_user"
           /\ Cardinality(Created(incidents)) + Cardinality(Eligible(m)) <= MaxIncidents
           /\ \A u \in Eligible(m) :
                 Cardinality({id \in Created(incidents) : incidents[id].userId = u})
                     < most
           /\ m.newStatus = "red" => now + TimerMinutes <= last
           /\ topic' = topic \ {delivery}
           /\ incidents' = st.incidents
           /\ schedules' = st.schedules
           /\ UNCHANGED <<now, configVars, polling, flow, window, pool, cache, reminderVars, deviceStatus, published, cycle, engine,
                          aggVars, invocations, handler, emails>>

NotifyUserBy(last) == NotifyUserUpTo(last, MaxPerRecipient)

\* the timers armed are due while the clock runs
NotifyUser == NotifyUserBy(MaxTime)

\* a recipient who has an incident is notified of a further fault event
RepeatNotifyUser == NotifyUserUpTo(MaxTime, MaxIncidents)

(***************************************************************************)
(* Incident Lifecycle Manager, timer firing: the notify_technician lambda. *)
(* An invocation is a process whose steps are its external calls, so that  *)
(* invocations for one timer may follow each other or overlap.             *)
(***************************************************************************)
\* bound on the invocations the scheduler makes for one timer
MaxFirings == 2

\* status attribute of the device's item, "none" when there is no item
StoredStatus(d) == IF deviceStatus[d].present THEN deviceStatus[d].status ELSE "none"

\* the scheduler fires a one-shot schedule at its time, once or more;
\* fired_device records the stored status of the incident's device at this
\* moment
Fire ==
    \E s \in schedules, n \in 1 .. MaxFirings :
        /\ ~s.fired
        /\ now >= s.schedule_time
        /\ schedules' = (schedules \ {s}) \cup
              {[s EXCEPT !.fired = TRUE,
                         !.fired_device = StoredStatus(incidents[s.incident_id].deviceId)]}
        /\ invocations' = [invocations EXCEPT ![<<s.incident_id, s.user_id>>] = @ + n]
        /\ UNCHANGED <<now, configVars, polling, flow, window, pool, cache, reminderVars, pollVars, cycle, engine, aggVars,
                       incidents, handler, emails>>

\* uuid4 values some of which have the same first 8 characters, and the
\* recipients, for the calls of the scheduler alone; a value whose schedule
\* was removed stands for any later value with the same first 8 characters
TimerUuids == {<<prefix, rest>> : prefix \in 1 .. 2, rest \in 0 .. 1}
TimerUsers == {"u1", "u3", "u4"}

\* the schedule armed for an incident and a recipient, if any
ScheduleOf(scheds, incident_id, user_id) ==
    {s \in scheds : s.incident_id = incident_id /\ s.user_id = user_id}

\* create_technician_schedule called for an incident that has no schedule
ArmTimer(incident_id, user_id, schedOk) ==
    /\ ScheduleOf(schedules, incident_id, user_id) = {}
    /\ schedules' = CreateTechnicianSchedule(schedules, incident_id, user_id, schedOk)
    /\ UNCHANGED <<now, configVars, polling, flow, window, pool, cache, reminderVars, pollVars, cycle,
                   engine, aggVars, incidents, invocations, handler, emails>>

\* cleanup_schedule called for an incident and a recipient
CleanupSchedule(incident_id, user_id, deleteOk) ==
    /\ schedules' =
          IF deleteOk
          THEN {s \in schedules : s.name # ScheduleName(incident_id, user_id)}
          ELSE schedules
    /\ UNCHANGED <<now, configVars, polling, flow, window, pool, cache, reminderVars, pollVars, cycle,
                   engine, aggVars, incidents, invocations, handler, emails>>

\* the calls of the scheduler, for any incident and recipient
ArmTimers ==
    \E incident_id \in TimerUuids, user_id \in TimerUsers, schedOk \in BOOLEAN :
        ArmTimer(incident_id, user_id, schedOk)

CleanupSchedules ==
    \E incident_id \in TimerUuids, user_id \in TimerUsers, deleteOk \in BOOLEAN :
        CleanupSchedule(incident_id, user_id, deleteOk)

\* an invocation that is not running
IdleHandler ==
    [pc |-> "idle", incident_id |-> <<1, 0>>, user_id |-> "u1", device_id |-> "d1",
     incident_status |-> "none", current_status |-> "none",
     email_sent |-> FALSE, table_failed |-> FALSE, raised |-> FALSE]

\* lambda_handler of notify_technician: the payload arrives; table_failed
\* records whether a table call of the invocation has failed, raised whether
\* the handler of the outer except clause runs
HandlerStart(k) ==
    \E payload \in Uuids \X Users :
        /\ handler[k].pc = "idle"
        /\ invocations[payload] > 0
        /\ invocations' = [invocations EXCEPT ![payload] = @ - 1]
        /\ handler' = [handler EXCEPT ![k] =
              [IdleHandler EXCEPT
                 !.pc = "get_incident", !.incident_id = payload[1], !.user_id = payload[2]]]
        /\ UNCHANGED <<now, configVars, polling, flow, window, pool, cache, reminderVars, pollVars, cycle, engine, aggVars,
                       incidents, schedules, emails>>

\* steps 1 and 2 with every incident found treated as a pending one
HandlerGetIncident_AnyStatus(k) ==
    \E getOk \in BOOLEAN :
        /\ handler[k].pc = "get_incident"
        /\ LET item == incidents[handler[k].incident_id]
               found == getOk /\ item.present /\ item.userId = handler[k].user_id
           IN handler' = [handler EXCEPT
                 ![k].table_failed = @ \/ ~getOk,
                 ![k].device_id = IF found THEN item.deviceId ELSE @,
                 ![k].incident_status = IF found THEN item.status ELSE @,
                 ![k].pc = IF ~found THEN "cleanup" ELSE "get_status"]
        /\ UNCHANGED <<now, configVars, polling, flow, window, pool, cache, reminderVars, pollVars, cycle, engine, aggVars,
                       incidents, schedules, invocations, emails>>

\* steps 1 and 2: get_incident_record and the test of the incident's status
HandlerGetIncident(k) ==
    \E getOk \in BOOLEAN :
        /\ handler[k].pc = "get_incident"
        /\ LET item == incidents[handler[k].incident_id]
               found == getOk /\ item.present /\ item.userId = handler[k].user_id
           IN handler' = [handler EXCEPT
                 ![k].table_failed = @ \/ ~getOk,
                 ![k].device_id = IF found THEN item.deviceId ELSE @,
                 ![k].incident_status = IF found THEN item.status ELSE @,
                 ![k].pc = IF ~found THEN "cleanup"
                           ELSE IF item.status = "dismissed" THEN "mark_processed"
                           ELSE IF item.status = "pending" THEN "get_status"
                           ELSE "mark_processed"]
        /\ UNCHANGED <<now, configVars, polling, flow, window, pool, cache, reminderVars, pollVars, cycle, engine, aggVars,
                       incidents, schedules, invocations, emails>>

\* step 3: get_current_device_status; a device read as green dismisses
HandlerGetStatus(k) ==
    \E getOk \in BOOLEAN :
        /\ handler[k].pc = "get_status"
        /\ LET item == deviceStatus[handler[k].device_id]
               found == getOk /\ item.present
           IN handler' = [handler EXCEPT
                 ![k].table_failed = @ \/ ~getOk,
                 ![k].current_status = IF found THEN item.status ELSE @,
                 ![k].pc = IF found /\ item.status = "green" THEN "mark_dismissed"
                           ELSE "get_profile"]
        /\ UNCHANGED <<now, configVars, polling, flow, window, pool, cache, reminderVars, pollVars, cycle, engine, aggVars,
                       incidents, schedules, invocations, emails>>

\* step 4 with the return of the missing profile taken before
\* cleanup_schedule
HandlerGetProfile_NoCleanup(k) ==
    \E getOk \in BOOLEAN :
        /\ handler[k].pc = "get_profile"
        /\ handler' = [handler EXCEPT
              ![k] = IF ~getOk THEN IdleHandler
                     ELSE [@ EXCEPT
                             !.pc = IF Strip(TechnicianEmail(handler[k].user_id)) = ""
                                    THEN "mark_processed"
                                    ELSE "send_email"]]
        /\ UNCHANGED <<now, configVars, polling, flow, window, pool, cache, reminderVars, pollVars, cycle, engine, aggVars,
                       incidents, schedules, invocations, emails>>

\* step 4: get_user_profile and the test of technician_email
HandlerGetProfile(k) ==
    \E getOk \in BOOLEAN :
        /\ handler[k].pc = "get_profile"
        /\ handler' = [handler EXCEPT
              ![k].table_failed = @ \/ ~getOk,
              ![k].pc = IF ~getOk THEN "cleanup"
                        ELSE IF Strip(TechnicianEmail(handler[k].user_id)) = ""
                        THEN "mark_processed"
                        ELSE "send_email"]
        /\ UNCHANGED <<now, configVars, polling, flow, window, pool, cache, reminderVars, pollVars, cycle, engine, aggVars,
                       incidents, schedules, invocations, emails>>

\* step 6: send_technician_email
HandlerSendEmail(k) ==
    \E sesOk \in BOOLEAN :
        /\ handler[k].pc = "send_email"
        /\ emails' = IF sesOk
                     THEN [emails EXCEPT ![handler[k].incident_id] = @ + 1]
                     ELSE emails
        /\ handler' = [handler EXCEPT ![k].pc = "mark_processed", ![k].email_sent = sesOk]
        /\ UNCHANGED <<now, configVars, polling, flow, window, pool, cache, reminderVars, pollVars, cycle, engine, aggVars,
                       incidents, schedules, invocations>>

\* steps 5 and 6 raising (format_technician_email has no handler of its own:
\* float() of a malformed expiresAt, fromtimestamp out of range): the outer
\* except clause takes over, nothing is sent or marked
HandlerRaise(k) ==
    /\ handler[k].pc = "send_email"
    /\ handler' = [handler EXCEPT ![k].pc = "cleanup", ![k].raised = TRUE]
    /\ UNCHANGED <<now, configVars, polling, flow, window, pool, cache, reminderVars, pollVars, cycle, engine, aggVars,
                   incidents, schedules, invocations, emails>>

\* mark_incident_as_processed / mark_incident_as_dismissed: update_item
MarkIncident(k, from, status) ==
    \E updateOk \in BOOLEAN :
        /\ handler[k].pc = from
        /\ incidents' = IF updateOk
                        THEN [incidents EXCEPT ![handler[k].incident_id].status = status]
                        ELSE incidents
        /\ handler' = [handler EXCEPT ![k].pc = "cleanup",
                                      ![k].table_failed = @ \/ ~updateOk]
        /\ UNCHANGED <<now, configVars, polling, flow, window, pool, cache, reminderVars, pollVars, cycle, engine, aggVars,
                       schedules, invocations, emails>>

HandlerMarkProcessed(k) == MarkIncident(k, "mark_processed", "processed")
HandlerMarkDismissed(k) == MarkIncident(k, "mark_dismissed", "dismissed")

\* cleanup_schedule, after which process_incident_notification returns
HandlerCleanup(k) ==
    \E deleteOk \in BOOLEAN :
        /\ handler[k].pc = "cleanup"
        /\ schedules' =
              IF deleteOk
              THEN {s \in schedules :
                      s.name # ScheduleName(handler[k].incident_id, handler[k].user_id)}
              ELSE schedules
        /\ handler' = [handler EXCEPT ![k] = IdleHandler]
        /\ UNCHANGED <<now, configVars, polling, flow, window, pool, cache, reminderVars, pollVars, cycle, engine, aggVars,
                       incidents, invocations, emails>>

\* a step of invocation k of the notify_technician lambda
NotifyTechnician(k) ==
        \/ HandlerStart(k)
        \/ HandlerGetIncident(k)
        \/ HandlerGetStatus(k)
        \/ HandlerGetProfile(k)
        \/ HandlerSendEmail(k)
        \/ HandlerMarkProcessed(k)
        \/ HandlerMarkDismissed(k)
        \/ HandlerCleanup(k)

(***************************************************************************)
(* Recipient actions: update_incident_status of the user management API.   *)
(***************************************************************************)
\* a recipient dismisses or escalates one of their incidents
UpdateIncidentStatus ==
    \E incident_id \in Created(incidents), action \in {"dismiss", "escalate"} :
        /\ incidents' = [incidents EXCEPT ![incident_id].status =
                            IF action = "dismiss" THEN "dismissed" ELSE "escalated"]
        /\ UNCHANGED <<now, configVars, polling, flow, window, pool, cache, reminderVars, pollVars, cycle, engine, aggVars,
                       schedules, invocations, handler, emails>>

(***************************************************************************)
(* The polling sweep: process_devices_concurrently. A sweep is a process:  *)
(* the listing of the inverters, one step for each submitted               *)
(* process_device_status and the collection of its result, the return.     *)
(***************************************************************************)
\* bound on the sweeps
MaxRuns == 2

\* no sweep running; of a sweep, listed are the inverters get_all_inverters
\* returned, todo those whose result is not collected yet, result what
\* process_device_status returned for each
IdlePolling ==
    [pc |-> "idle", n |-> 0, listed |-> {}, todo |-> {},
     result |-> [d \in Devices |-> "none"]]

\* get_all_inverters, empty on error, and the submission of every inverter
SweepStart ==
    \E listOk \in BOOLEAN :
        LET found == IF listOk THEN inverters ELSE {}
        IN /\ polling.pc = "idle"
           /\ polling.n < MaxRuns
           /\ polling' = [IdlePolling EXCEPT
                             !.pc = IF found = {} THEN "idle" ELSE "run",
                             !.n = polling.n + 1, !.listed = found, !.todo = found]
           /\ UNCHANGED <<now, configVars, pollVars, cycle, engine, aggVars,
                          incidentVars, flow, window, pool, cache, reminderVars>>

\* what process_device_status returns: False when it raised, the result of
\* the publication when the pair changed, True otherwise
CycleResult(c, raises) ==
    IF raises THEN "False"
    ELSE IF c.status_changed THEN (IF c.sns_success THEN "True" ELSE "False")
    ELSE "True"

\* a sweep that a failed cycle ends: the results left are not collected
SweepDevice_Abort ==
    \E d \in polling.todo, raises \in BOOLEAN, power \in SweepPowers,
       is_moon_time_period \in BOOLEAN, readOk \in BOOLEAN, rereadOk \in BOOLEAN,
       writeOk \in BOOLEAN, snsOk \in BOOLEAN :
        LET c == CycleRecord(d, power, is_moon_time_period, << >>, SupabaseCodes,
                             readOk, rereadOk, writeOk, snsOk)
            success == CycleResult(c, raises)
        IN /\ polling.pc = "run"
           /\ IF raises
              THEN UNCHANGED <<now, configVars, pollVars, engine, aggVars,
                               incidentVars, reminderVars>>
              ELSE ProcessDeviceStatus(d, power, is_moon_time_period, << >>,
                                       SupabaseCodes, readOk, rereadOk, writeOk, snsOk)
           /\ polling' = [polling EXCEPT
                             !.pc = IF success = "False" THEN "idle" ELSE @,
                             !.todo = @ \ {d}, !.result[d] = success]
           /\ UNCHANGED <<cycle, flow, window, pool, cache>>

\* one submitted process_device_status, which may raise before its write,
\* and the collection of its result
SweepDevice ==
    \E d \in polling.todo, raises \in BOOLEAN, power \in SweepPowers,
       is_moon_time_period \in BOOLEAN, readOk \in BOOLEAN, rereadOk \in BOOLEAN,
       writeOk \in BOOLEAN, snsOk \in BOOLEAN :
        LET c == CycleRecord(d, power, is_moon_time_period, << >>, SupabaseCodes,
                             readOk, rereadOk, writeOk, snsOk)
        IN /\ polling.pc = "run"
           /\ IF raises
              THEN UNCHANGED <<now, configVars, pollVars, engine, aggVars,
                               incidentVars, reminderVars>>
              ELSE ProcessDeviceStatus(d, power, is_moon_time_period, << >>,
                                       SupabaseCodes, readOk, rereadOk, writeOk, snsOk)
           /\ polling' = [polling EXCEPT
                             !.todo = @ \ {d}, !.result[d] = CycleResult(c, raises)]
           /\ UNCHANGED <<cycle, flow, window, pool, cache>>

\* every result is collected: the sweep returns
SweepEnd ==
    /\ polling.pc = "run"
    /\ polling.todo = {}
    /\ polling' = [polling EXCEPT !.pc = "idle"]
    /\ UNCHANGED <<now, configVars, pollVars, cycle, engine, aggVars,
                   incidentVars, flow, window, pool, cache, reminderVars>>

ProcessDevicesConcurrently == SweepStart \/ SweepDevice \/ SweepEnd

(***************************************************************************)
(* The module's caches: _jwt_token_cache of get_jwt_token and              *)
(* _error_codes_cache of get_all_error_codes_from_supabase, two dicts the  *)
(* workers read and write without a lock.  A value fetched is named by the *)
(* number of its fetch; a step is one read or one write of a dict.         *)
(***************************************************************************)
CacheNames == {"jwt", "codes"}
Workers == 1 .. 2
\* bound on the fetches, and the last reading of the clock
MaxFetches == 3
MaxClock == 90
\* timedelta(hours=1) of expires_at, and the step of the clock
CacheMinutes == 60
ClockStep == 30

\* a dict as initialised: {'token': None, 'expires_at': None}; value is the
\* number of the fetch that stored the value, expires_at the instant stored,
\* by the number of the fetch that stored it
NoFetch == 0
EmptyDict == [value |-> NoFetch, expires_at |-> NoneTime, by |-> NoFetch]

\* a worker outside the two functions; of its last call, result tells how
\* it returned, value the fetch whose value it returned, checked the fetch
\* whose expires_at its test read, at the reading of the clock of its test
IdleWorker ==
    [pc |-> "idle", name |-> "jwt", fetch |-> NoFetch,
     result |-> "none", value |-> NoFetch, checked |-> NoFetch, at |-> 0]

\* the caches before the first lookup; fetches counts the fetches made,
\* own is the expires_at each fetch computed for its value
IdleCache ==
    [dict |-> [c \in CacheNames |-> EmptyDict],
     worker |-> [w \in Workers |-> IdleWorker],
     fetches |-> 0,
     own |-> [f \in 1 .. MaxFetches |-> NoneTime]]

\* the test of the cached entry: value and expires_at set, utcnow before it
CacheValid(d) == d.value # NoFetch /\ d.expires_at # NoneTime /\ now < d.expires_at

\* a worker calls one of the two functions and tests the cached entry
CacheCheck(w) ==
    \E c \in CacheNames :
        /\ cache.worker[w].pc = "idle"
        /\ cache' = [cache EXCEPT !.worker[w] =
              [IdleWorker EXCEPT
                  !.pc = IF CacheValid(cache.dict[c]) THEN "hit" ELSE "request",
                  !.name = c, !.checked = cache.dict[c].by, !.at = now]]
        /\ UNCHANGED <<now, configVars, pollVars, cycle, engine, aggVars, incidentVars,
                       polling, flow, window, pool, reminderVars>>

\* return _jwt_token_cache['token'], return _error_codes_cache['codes']
CacheHit(w) ==
    /\ cache.worker[w].pc = "hit"
    /\ cache' = [cache EXCEPT !.worker[w] =
          [@ EXCEPT !.pc = "idle", !.result = "cached",
                    !.value = cache.dict[cache.worker[w].name].value]]
    /\ UNCHANGED <<now, configVars, pollVars, cycle, engine, aggVars, incidentVars,
                   polling, flow, window, pool, reminderVars>>

\* the request: a response, or the failure with which get_jwt_token raises
\* after its attempts and get_all_error_codes_from_supabase returns {}
CacheRequest(w) ==
    \E ok \in BOOLEAN :
        /\ cache.worker[w].pc = "request"
        /\ ok => cache.fetches < MaxFetches
        /\ cache' =
              IF ok
              THEN [cache EXCEPT !.fetches = @ + 1,
                                 !.worker[w] = [@ EXCEPT !.pc = "store_value",
                                                         !.fetch = cache.fetches + 1]]
              ELSE [cache EXCEPT !.worker[w] = [@ EXCEPT !.pc = "idle", !.result = "failed"]]
        /\ UNCHANGED <<now, configVars, pollVars, cycle, engine, aggVars, incidentVars,
                       polling, flow, window, pool, reminderVars>>

\* _jwt_token_cache['token'] = ..., _error_codes_cache['codes'] = ...
CacheStoreValue(w) ==
    /\ cache.worker[w].pc = "store_value"
    /\ cache' = [cache EXCEPT
          !.dict[cache.worker[w].name].value = cache.worker[w].fetch,
          !.worker[w].pc = "store_expiry"]
    /\ UNCHANGED <<now, configVars, pollVars, cycle, engine, aggVars, incidentVars,
                   polling, flow, window, pool, reminderVars>>

\* ...['expires_at'] = datetime.utcnow() + timedelta(hours=1), and the
\* return of the value fetched
CacheStoreExpiry(w) ==
    /\ cache.worker[w].pc = "store_expiry"
    /\ cache' = [cache EXCEPT
          !.dict[cache.worker[w].name].expires_at = now + CacheMinutes,
          !.dict[cache.worker[w].name].by = cache.worker[w].fetch,
          !.own[cache.worker[w].fetch] = now + CacheMinutes,
          !.worker[w] = [@ EXCEPT !.pc = "idle", !.result = "fetched",
                                  !.value = cache.worker[w].fetch]]
    /\ UNCHANGED <<now, configVars, pollVars, cycle, engine, aggVars, incidentVars,
                   polling, flow, window, pool, reminderVars>>

\* a step of worker w in one of the two functions
CacheLookup(w) ==
    \/ CacheCheck(w)
    \/ CacheHit(w)
    \/ CacheRequest(w)
    \/ CacheStoreValue(w)
    \/ CacheStoreExpiry(w)

\* the clock advances
ClockTick ==
    /\ now < MaxClock
    /\ now' = now + ClockStep
    /\ UNCHANGED <<configVars, pollVars, cycle, engine, aggVars, incidentVars,
                   polling, flow, window, pool, cache, reminderVars>>

(***************************************************************************)
(* The batches of a sweep: the list get_all_inverters returned is cut in    *)
(* slices of batch_size entries, each slice submitted to a thread pool of   *)
(* its own, whose "with" block ends when every worker has finished.  An     *)
(* entry of the list is named by its position.                              *)
(***************************************************************************)
\* bound on the entries of the list
MaxListed == 5
\* batch_size, 32 in the source, taken small so that a sweep has batches
batch_size == 2

Entries == 1 .. MaxListed

\* total_batches
TotalBatches(len) == (len + batch_size - 1) \div batch_size

\* inverters[start_idx:end_idx] of batch batch_num, counted from 0
BatchInverters(len, batch_num) ==
    LET start_idx == batch_num * batch_size
        end_idx == IF start_idx + batch_size < len THEN start_idx + batch_size ELSE len
    IN {i \in Entries : start_idx < i /\ i <= end_idx}

\* no sweep running; of a sweep, len is the length of the list, batch_num
\* the loop variable, future the state of the future of each entry, calls
\* the number of calls of process_device_status made for it
IdlePool ==
    [pc |-> "idle", n |-> 0, len |-> 0, batch_num |-> 0,
     future |-> [i \in Entries |-> "none"],
     calls |-> [i \in Entries |-> 0]]

\* the list is fetched; an empty one ends the sweep
PoolStart ==
    \E len \in 0 .. MaxListed :
        /\ pool.pc = "idle"
        /\ pool.n < MaxRuns
        /\ pool' = [IdlePool EXCEPT
                       !.pc = IF len = 0 THEN "idle" ELSE "submit",
                       !.n = pool.n + 1, !.len = len]
        /\ UNCHANGED <<now, configVars, pollVars, cycle, engine, aggVars, incidentVars,
                       polling, flow, window, cache, reminderVars>>

\* executor.submit for every entry of the batch
PoolSubmit ==
    /\ pool.pc = "submit"
    /\ pool' = [pool EXCEPT
                   !.pc = "collect",
                   !.future = [i \in Entries |->
                                 IF i \in BatchInverters(pool.len, pool.batch_num)
                                 THEN "pending" ELSE @[i]]]
    /\ UNCHANGED <<now, configVars, pollVars, cycle, engine, aggVars, incidentVars,
                   polling, flow, window, cache, reminderVars>>

\* a thread of the pool takes a submitted call of process_device_status
WorkerStart ==
    \E i \in Entries :
        /\ pool.future[i] = "pending"
        /\ pool' = [pool EXCEPT !.future[i] = "running", !.calls[i] = @ + 1]
        /\ UNCHANGED <<now, configVars, pollVars, cycle, engine, aggVars, incidentVars,
                       polling, flow, window, cache, reminderVars>>

\* the call returns or raises: its future is done
WorkerFinish ==
    \E i \in Entries :
        /\ pool.future[i] = "running"
        /\ pool' = [pool EXCEPT !.future[i] = "done"]
        /\ UNCHANGED <<now, configVars, pollVars, cycle, engine, aggVars, incidentVars,
                       polling, flow, window, cache, reminderVars>>

\* as_completed yields a future that is done; its result is collected
PoolCollect ==
    \E i \in Entries :
        /\ pool.pc = "collect"
        /\ pool.future[i] = "done"
        /\ pool' = [pool EXCEPT !.future[i] = "collected"]
        /\ UNCHANGED <<now, configVars, pollVars, cycle, engine, aggVars, incidentVars,
                       polling, flow, window, cache, reminderVars>>

\* the end of a batch that does not wait for its futures
PoolBatchEnd_NoWait ==
    /\ pool.pc = "collect"
    /\ pool' = IF pool.batch_num < TotalBatches(pool.len) - 1
               THEN [pool EXCEPT !.pc = "submit", !.batch_num = @ + 1]
               ELSE [pool EXCEPT !.pc = "idle"]
    /\ UNCHANGED <<now, configVars, pollVars, cycle, engine, aggVars, incidentVars,
                   polling, flow, window, cache, reminderVars>>

\* every future of the batch was yielded and the "with" block is left: the
\* next batch, or the return
PoolBatchEnd ==
    /\ pool.pc = "collect"
    /\ \A i \in BatchInverters(pool.len, pool.batch_num) : pool.future[i] = "collected"
    /\ pool' = IF pool.batch_num < TotalBatches(pool.len) - 1
               THEN [pool EXCEPT !.pc = "submit", !.batch_num = @ + 1]
               ELSE [pool EXCEPT !.pc = "idle"]
    /\ UNCHANGED <<now, configVars, pollVars, cycle, engine, aggVars, incidentVars,
                   polling, flow, window, cache, reminderVars>>

(***************************************************************************)
(* Reminder Sweeper: process_red_code_reminders of red_code_reminder.py.   *)
(* A run is a process: the scan, one step for each inverter found, the     *)
(* return.                                                                 *)
(***************************************************************************)
RED_STATUS_THRESHOLD_HOURS == 15
RedStatusThreshold == RED_STATUS_THRESHOLD_HOURS * MinutesPerHour

\* bound on the runs of the sweeper
MaxSweeps == 2

\* no run yet; of a run, records and at hold the table and the clock as
\* they are at its scan, failed whether a call of it failed, repeat whether
\* the run before it scanned the same records at the same instant
IdleReminder ==
    [pc |-> "idle", todo |-> {}, sent |-> [d \in Devices |-> 0], failed |-> FALSE,
     records |-> [d \in Devices |-> DefaultStatus], at |-> 0, repeat |-> FALSE]

\* get_all_red_inverters: a RedInverterInfo for each item whose status is
\* red, none when the scan fails
GetAllRedInverters(scanOk) ==
    IF scanOk
    THEN {[device_id |-> d, pv_system_id |-> SystemOf(d),
           status |-> deviceStatus[d].status, reason |-> deviceStatus[d].reason,
           last_status_change_time |-> deviceStatus[d].lastStatusChangeTime] :
             d \in {x \in Devices : deviceStatus[x].present /\ deviceStatus[x].status = "red"}}
    ELSE {}

\* is_red_status_old_enough: a missing time counts as old enough
IsRedStatusOldEnough(last_status_change_time) ==
    IF last_status_change_time = NoneTime THEN TRUE
    ELSE now - last_status_change_time >= RedStatusThreshold

\* the message send_red_code_reminder_sns publishes; it has no timezone key
ReminderMessage(inverter) ==
    [deviceId |-> inverter.device_id, pvSystemId |-> inverter.pv_system_id,
     newStatus |-> inverter.status, previousStatus |-> "red",
     newReason |-> inverter.reason, previousReason |-> inverter.reason,
     timestamp |-> now, timezone |-> "None", type |-> "Daily Reminder"]

\* the item is in fault and its last status change is RedStatusThreshold or
\* more before instant t
DueForReminder(item, t) ==
    /\ item.present
    /\ item.status = "red"
    /\ item.lastStatusChangeTime # NoneTime
    /\ t - item.lastStatusChangeTime >= RedStatusThreshold

\* what is observed of a run when it returns: the devices that were due at
\* its scan, the reminders it sent, whether all its calls succeeded with the
\* clock standing still, whether it repeats the run before it
SweepRecord(r) ==
    [due |-> {d \in Devices : DueForReminder(r.records[d], r.at)},
     sent |-> r.sent, clean |-> ~r.failed /\ now = r.at, repeat |-> r.repeat]

\* the scan; with nothing found the run returns at once
ReminderScan ==
    \E scanOk \in BOOLEAN :
        LET red_inverters == GetAllRedInverters(scanOk)
            started == [IdleReminder EXCEPT
                          !.pc = "send", !.todo = red_inverters, !.failed = ~scanOk,
                          !.records = deviceStatus, !.at = now,
                          !.repeat = /\ sweeps # << >>
                                     /\ reminder.records = deviceStatus
                                     /\ reminder.at = now]
        IN /\ reminder.pc = "idle"
           /\ Len(sweeps) < MaxSweeps
           /\ IF red_inverters = {}
              THEN /\ sweeps' = Append(sweeps, SweepRecord(started))
                   /\ reminder' = [started EXCEPT !.pc = "idle"]
              ELSE /\ reminder' = started
                   /\ sweeps' = sweeps
           /\ UNCHANGED <<now, configVars, polling, flow, window, pool, cache, pollVars, cycle, engine, aggVars, incidentVars>>

\* process_red_inverter_reminder for one of the inverters found
ReminderSend ==
    \E inverter \in reminder.todo, snsOk \in BOOLEAN :
        LET old == IsRedStatusOldEnough(inverter.last_status_change_time)
        IN /\ reminder.pc = "send"
           /\ topic' = IF old /\ snsOk THEN Publish(ReminderMessage(inverter)) ELSE topic
           /\ reminder' = [reminder EXCEPT
                 !.todo = @ \ {inverter},
                 !.sent[inverter.device_id] = IF old /\ snsOk THEN @ + 1 ELSE @,
                 !.failed = @ \/ (old /\ ~snsOk)]
           /\ UNCHANGED <<now, configVars, polling, flow, window, pool, cache, deviceStatus, published, cycle, engine,
                          aggVars, incidentVars, sweeps>>

\* every inverter found was processed: the run returns
ReminderReturn ==
    /\ reminder.pc = "send"
    /\ reminder.todo = {}
    /\ sweeps' = Append(sweeps, SweepRecord(reminder))
    /\ reminder' = [reminder EXCEPT !.pc = "idle"]
    /\ UNCHANGED <<now, configVars, polling, flow, window, pool, cache, pollVars, cycle, engine, aggVars, incidentVars>>

ProcessRedCodeReminders == ReminderScan \/ ReminderSend \/ ReminderReturn

\* the reminders' threshold passes
Sleep ==
    /\ now < MaxTime
    /\ now' = now + RedStatusThreshold
    /\ UNCHANGED <<configVars, polling, flow, window, pool, cache, reminderVars, pollVars, cycle, engine, aggVars, incidentVars>>

\* notify_user while nothing fires the timers it arms
LateNotifyUser == NotifyUserBy(MaxTime + RedStatusThreshold + TimerMinutes)

\* time passes
Tick ==
    /\ now < MaxTime
    /\ now' = now + 1
    /\ UNCHANGED <<configVars, polling, flow, window, pool, cache, reminderVars, pollVars, cycle, engine, aggVars, incidentVars>>

(***************************************************************************)
(* The time window of a cycle: get_sunrise_sunset_data, get_suntimes,      *)
(* get_system_timezone and is_moon_time.  A time of day is a number of      *)
(* minutes after midnight, an instant a number of minutes after the start   *)
(* of the year in UTC; a time text "HH:MM AM" is the triple of its hour,    *)
(* its minute and its AM/PM mark.                                           *)
(***************************************************************************)
\* the texts the table and the provider hold: one that "%I:%M %p" reads,
\* and one in 24-hour form, which it rejects
SunriseStrings == {<<6, 45, "AM">>, <<7, 20, "AM">>, <<6, 45, "">>}
SunsetStrings == {<<6, 30, "PM">>, <<4, 35, "PM">>, <<18, 30, "">>}

\* no item, an item without the two fields, a provider that fails
NoSunData == [sunrise |-> << >>, sunset |-> << >>]
SunData == {NoSunData} \cup [sunrise : SunriseStrings, sunset : SunsetStrings]

\* the timeZone of the profiles, "None" for a profile without one
ZoneNames == {"America/New_York", "America/Chicago", "America/Denver", "None"}

\* the readings of the clock: in January 00:00, 11:30, 12:45, 12:46, 22:29
\* and 22:30 UTC, on the first of July 18:00 and 21:30
JulyFirst == 181 * MinutesPerDay
ClockTimes == {0, 690, 765, 766, 1349, 1350, JulyFirst + 1080, JulyFirst + 1290}

\* what the provider returns when the table has no sun data
FetchedSunData == {NoSunData, [sunrise |-> <<6, 45, "AM">>, sunset |-> <<6, 30, "PM">>]}

\* bound on the cycles that compute their window
MaxWindows == 2

\* datetime.strptime(text, "%I:%M %p") as a time of day; ParseError when it
\* raises ValueError
ParseError == -1
Strptime(text) ==
    IF /\ Len(text) = 3
       /\ text[1] \in 1 .. 12
       /\ text[2] \in 0 .. 59
       /\ text[3] \in {"AM", "PM"}
    THEN ((text[1] % 12) + (IF text[3] = "PM" THEN 12 ELSE 0)) * MinutesPerHour + text[2]
    ELSE ParseError

\* (datetime +/- timedelta).time(): the time of day of an instant
TimeOfDay(minutes) == (minutes + MinutesPerDay) % MinutesPerDay

\* the offset from UTC of the clock datetime.now() reads on the server
ServerOffsetHours == 0

\* the current time is_moon_time compares
CurrentTimeInSystemTz(system_timezone, utc_now) ==
    LET is_dst == IsDaylightSavingTime(utc_now)
        offset_hours ==
            IF system_timezone = "America/New_York" THEN (IF is_dst THEN 4 ELSE 5)
            ELSE IF system_timezone = "America/Chicago" THEN (IF is_dst THEN 5 ELSE 6)
            ELSE ServerOffsetHours
    IN TimeOfDay((utc_now % MinutesPerDay) - offset_hours * MinutesPerHour)

\* is_moon_time comparing with "and" where the source has "or"
IsMoonTime_Between(sunrise_str, sunset_str, system_timezone, utc_now) ==
    LET sunrise_time == Strptime(sunrise_str)
        sunset_time == Strptime(sunset_str)
        moon_start == TimeOfDay(sunset_time - MinutesPerHour)
        moon_end == TimeOfDay(sunrise_time + MinutesPerHour)
        current_time_in_system_tz == CurrentTimeInSystemTz(system_timezone, utc_now)
    IN IF sunrise_time = ParseError \/ sunset_time = ParseError
       THEN FALSE
       ELSE current_time_in_system_tz >= moon_start /\ current_time_in_system_tz <= moon_end

\* is_moon_time; False when the parsing raises
IsMoonTime(sunrise_str, sunset_str, system_timezone, utc_now) ==
    LET sunrise_time == Strptime(sunrise_str)
        sunset_time == Strptime(sunset_str)
        moon_start == TimeOfDay(sunset_time - MinutesPerHour)
        moon_end == TimeOfDay(sunrise_time + MinutesPerHour)
        current_time_in_system_tz == CurrentTimeInSystemTz(system_timezone, utc_now)
    IN IF sunrise_time = ParseError \/ sunset_time = ParseError
       THEN FALSE
       ELSE current_time_in_system_tz >= moon_start \/ current_time_in_system_tz <= moon_end

\* is_moon_time raises inside its try
MoonTimeRaises(sunrise_str, sunset_str) ==
    Strptime(sunrise_str) = ParseError \/ Strptime(sunset_str) = ParseError

\* no cycle is computing its window; of one, site_zone is the timeZone of
\* the site's profile, system_timezone what get_system_timezone returned,
\* utc_now the reading of the clock; of the cycle before, sun_data is kept
IdleWindow ==
    [pc |-> "idle", device |-> "d1", sun_data |-> NoSunData, site_zone |-> "None",
     system_timezone |-> "None", utc_now |-> 0, is_moon_time_period |-> FALSE]

\* process_device_status reads the sun data, from the table or else from
\* the provider, and the timezone; a failed read of the profile gives None
WindowStart ==
    \E d \in inverters, item \in SunData, fetched \in FetchedSunData, zone \in ZoneNames,
       tzOk \in BOOLEAN, utc_now \in ClockTimes :
        LET sun_data == IF item = NoSunData THEN fetched ELSE item
        IN /\ window.pc = "idle"
           /\ cycle.n < MaxWindows
           /\ window' = [IdleWindow EXCEPT
                            !.pc = "window", !.device = d, !.sun_data = sun_data,
                            !.site_zone = zone,
                            !.system_timezone = IF tzOk THEN zone ELSE "None",
                            !.utc_now = utc_now]
           /\ UNCHANGED <<now, configVars, pollVars, cycle, engine, aggVars, incidentVars,
                          polling, flow, pool, cache, reminderVars>>

\* is_moon_time_period taken for True when there are no sun data
WindowMoon_NightWithoutData ==
    /\ window.pc = "window"
    /\ window' = [window EXCEPT
                     !.pc = "classify",
                     !.is_moon_time_period =
                         IF window.sun_data # NoSunData
                         THEN IsMoonTime(window.sun_data.sunrise, window.sun_data.sunset,
                                         window.system_timezone, window.utc_now)
                         ELSE TRUE]
    /\ UNCHANGED <<now, configVars, pollVars, cycle, engine, aggVars, incidentVars,
                   polling, flow, pool, cache, reminderVars>>

\* is_moon_time_period: False without sun data, is_moon_time with them
WindowMoon ==
    /\ window.pc = "window"
    /\ window' = [window EXCEPT
                     !.pc = "classify",
                     !.is_moon_time_period =
                         IF window.sun_data # NoSunData
                         THEN IsMoonTime(window.sun_data.sunrise, window.sun_data.sunset,
                                         window.system_timezone, window.utc_now)
                         ELSE FALSE]
    /\ UNCHANGED <<now, configVars, pollVars, cycle, engine, aggVars, incidentVars,
                   polling, flow, pool, cache, reminderVars>>

\* the rest of process_device_status with the window computed
WindowCycle ==
    \E power \in Powers, messages \in PollMessageLists, readOk \in BOOLEAN, writeOk \in BOOLEAN :
        /\ window.pc = "classify"
        /\ ProcessDeviceStatus(window.device, power, window.is_moon_time_period,
                               messages, SupabaseCodes, readOk, TRUE, writeOk, TRUE)
        /\ cycle' = CycleRecord(window.device, power, window.is_moon_time_period,
                                messages, SupabaseCodes, readOk, TRUE, writeOk, TRUE)
        /\ window' = [IdleWindow EXCEPT !.sun_data = window.sun_data]
        /\ UNCHANGED <<polling, flow, pool, cache>>

(***************************************************************************)
(* Specifications.                                                         *)
(***************************************************************************)
IdleEngine ==
    [pc |-> "out", current_status |-> "green", current_reason |-> "",
     power |-> 0, is_moon_time_period |-> FALSE, messages |-> << >>,
     color_map |-> EmptyMap, new_status |-> "green", new_reason |-> ""]

\* the state after deployment: an empty table, nothing in flight
Start(invs, subs, users) ==
    /\ now = 0
    /\ inverters = invs
    /\ subscribers = subs
    /\ systemProfile = [s \in Systems |-> "America/New_York"]
    /\ userAccess = users
    /\ deviceStatus = [d \in Devices |-> DefaultStatus]
    /\ topic = {}
    /\ published = 0
    /\ cycle = NoCycle
    /\ engine = IdleEngine
    /\ systemStatus = [s \in Systems |-> DefaultSystemStatus]
    /\ dailyStatus = [key \in DailyKeys |-> << >>]
    /\ agg = [k \in Slots |-> IdleAgg]
    /\ incidents = [id \in Uuids |-> NoIncident]
    /\ schedules = {}
    /\ invocations = [payload \in Uuids \X Users |-> 0]
    /\ handler = [k \in Slots |-> IdleHandler]
    /\ emails = [id \in Uuids |-> 0]
    /\ polling = IdlePolling
    /\ flow = IdleFlow
    /\ window = IdleWindow
    /\ pool = IdlePool
    /\ cache = IdleCache
    /\ reminder = IdleReminder
    /\ sweeps = << >>

\* the classification block applied to every input
EngineInit ==
    /\ now = 0
    /\ inverters = Devices
    /\ subscribers = Subscribers
    /\ systemProfile = [s \in Systems |-> "America/New_York"]
    /\ userAccess = {}
    /\ deviceStatus = [d \in Devices |-> DefaultStatus]
    /\ topic = {}
    /\ published = 0
    /\ cycle = NoCycle
    /\ engine \in EngineInputs
    /\ systemStatus = [s \in Systems |-> DefaultSystemStatus]
    /\ dailyStatus = [key \in DailyKeys |-> << >>]
    /\ agg = [k \in Slots |-> IdleAgg]
    /\ incidents = [id \in Uuids |-> NoIncident]
    /\ schedules = {}
    /\ invocations = [payload \in Uuids \X Users |-> 0]
    /\ handler = [k \in Slots |-> IdleHandler]
    /\ emails = [id \in Uuids |-> 0]
    /\ polling = IdlePolling
    /\ flow = IdleFlow
    /\ window = IdleWindow
    /\ pool = IdlePool
    /\ cache = IdleCache
    /\ reminder = IdleReminder
    /\ sweeps = << >>

EngineNext == ApplyClassify

EngineSpec == EngineInit /\ [][EngineNext]_vars

\* the polling cycles of one inverter, observed
PollInit == Start({"d1"}, {}, {})

PollNext == TracedPoll \/ Tick

PollSpec == PollInit /\ [][PollNext]_vars

\* the polling cycles of one inverter with their telemetry retrieval; a
\* request of the provider returns or raises (timeout=30)
FlowNext == FlowStart \/ FlowRequest \/ FlowCycle

FlowSpec == PollInit /\ [][FlowNext]_vars /\ WF_vars(FlowRequest)

\* two inverters polled, the update_status lambda subscribed, its
\* invocations one after the other
AggInit == Start(Devices, {"update_status"}, {})

AggNext == Poll \/ UpdateStatus(1)

AggSpec == AggInit /\ [][AggNext]_vars

\* a polling cycle while no invocation of the update_status lambda runs
StillPoll == (\A k \in Slots : agg[k].pc = "idle") /\ Poll

\* two inverters polled, no device record written while the update_status
\* lambda runs
StillNext == StillPoll \/ UpdateStatus(1)

StillSpec == AggInit /\ [][StillNext]_vars

\* two inverters polled, every change announced, two invocations of the
\* update_status lambda that may overlap
RaceInit == Start(Devices, {"update_status"}, {})

RaceNext == AnnouncedPoll \/ UpdateStatus(1) \/ UpdateStatus(2)

RaceSpec == RaceInit /\ [][RaceNext]_vars

\* the sweeps over two inverters
SweepInit == Start(Devices, {}, {})

SweepNext == ProcessDevicesConcurrently

SweepSpec == SweepInit /\ [][SweepNext]_vars

\* one inverter polled, the notify_user lambda subscribed, four recipients:
\* two with a technician_email, one without, one without access
CreateInit == Start({"d1"}, {"notify_user"}, {"u1", "u2", "u4"})

CreateNext == Poll \/ FaultPoll \/ NotifyUser

CreateSpec == CreateInit /\ [][CreateNext]_vars

\* one inverter polled, one recipient, timers firing, the recipient acting
IncidentInit == Start({"d1"}, {"notify_user"}, {"u1"})

IncidentNext ==
    \/ Poll
    \/ Tick
    \/ NotifyUser
    \/ Fire
    \/ NotifyTechnician(1)
    \/ NotifyTechnician(2)
    \/ UpdateIncidentStatus

\* one inverter polled, the sweeper running, the notify_user lambda
\* subscribed, one recipient
ReminderInit == Start({"d1"}, {"notify_user"}, {"u1"})

ReminderNext ==
    \/ QuietPoll
    \/ Sleep
    \/ ProcessRedCodeReminders
    \/ LateNotifyUser

ReminderSpec == ReminderInit /\ [][ReminderNext]_vars

\* one inverter polled, the sweeper running, the update_status lambda
\* subscribed to the topic both publish to
AuditInit == Start({"d1"}, {"update_status"}, {})

\* a polling cycle between two invocations of the aggregator and two runs
\* of the sweeper, every change it records being published
AuditPoll ==
    /\ topic = {}
    /\ \A k \in Slots : agg[k].pc = "idle"
    /\ reminder.pc = "idle"
    /\ AnnouncedPoll

\* the threshold passes once the events published were handled
AuditSleep == topic = {} /\ (\A k \in Slots : agg[k].pc = "idle") /\ Sleep

\* the sweeper runs between two invocations of the aggregator
AuditReminders == (\A k \in Slots : agg[k].pc = "idle") /\ ProcessRedCodeReminders

AuditNext ==
    \/ AuditPoll
    \/ AuditSleep
    \/ AuditReminders
    \/ UpdateStatus(1)

AuditSpec == AuditInit /\ [][AuditNext]_vars

\* two workers in the cached lookups
CacheNext == CacheLookup(1) \/ CacheLookup(2) \/ ClockTick

CacheSpec == PollInit /\ [][CacheNext]_vars

\* the batches of the sweeps
BatchNext ==
    \/ PoolStart
    \/ PoolSubmit
    \/ WorkerStart
    \/ WorkerFinish
    \/ PoolCollect
    \/ PoolBatchEnd

BatchSpec == SweepInit /\ [][BatchNext]_vars

\* the scheduler alone: timers armed and removed
TimerInit == Start({"d1"}, {}, {})

TimerNext == ArmTimers \/ CleanupSchedules

TimerSpec == TimerInit /\ [][TimerNext]_vars

\* one inverter whose cycles compute their window
WindowInit == Start({"d1"}, {}, {})

WindowNext == WindowStart \/ WindowMoon \/ WindowCycle

WindowSpec == WindowInit /\ [][WindowNext]_vars

\* time passes, the scheduler fires the timers that are due, and a lambda
\* that was invoked runs to its return
IncidentFairness ==
    /\ WF_vars(Tick)
    /\ WF_vars(Fire)
    /\ WF_vars(NotifyUser)
    /\ WF_vars(NotifyTechnician(1))
    /\ WF_vars(NotifyTechnician(2))

IncidentSpec == IncidentInit /\ [][IncidentNext]_vars /\ IncidentFairness

\* one invocation of the timer handler at a time, every path of
\* process_incident_notification taken, the outer except clause included
HandlerNext ==
    \/ Poll
    \/ Tick
    \/ NotifyUser
    \/ Fire
    \/ NotifyTechnician(1)
    \/ HandlerRaise(1)
    \/ UpdateIncidentStatus

HandlerSpec == IncidentInit /\ [][HandlerNext]_vars

\* one inverter whose fault is announced more than once to one recipient,
\* the timers firing, the recipient acting
RepeatNext ==
    \/ Poll
    \/ FaultPoll
    \/ Tick
    \/ RepeatNotifyUser
    \/ Fire
    \/ NotifyTechnician(1)
    \/ UpdateIncidentStatus

RepeatSpec == IncidentInit /\ [][RepeatNext]_vars


(***************************************************************************)
(* C1. Night window transition table.                                      *)
(***************************************************************************)
\* the documented table, the power reading given as producing or not
NightTable(status, reason, producing) ==
    CASE status = "red" /\ ~producing -> <<"red", reason>>
      [] status = "red" /\ producing -> <<"green", "">>
      [] status = "Moon" /\ ~producing -> <<"Moon", reason>>
      [] status = "Moon" /\ producing -> <<"green", "">>
      [] status = "green" /\ producing -> <<"green", reason>>
      [] status = "green" /\ ~producing -> <<"Moon", MoonReason>>

ClassifiedAtNight == engine.pc = "out" /\ engine.is_moon_time_period

\* C1 as stated: in the night window every (status, power zero/nonzero) pair
\* yields the (new status, new reason) of the documented table.
C1_NightTableNonzero ==
    ClassifiedAtNight =>
        <<engine.new_status, engine.new_reason>> =
            NightTable(engine.current_status, engine.current_reason, engine.power # 0)

\* C1 amended: in the night window every (status, power zero/positive) pair
\* yields the (new status, new reason) of the documented table, and a negative
\* reading leaves status and reason as they were.
C1_NightTablePositive ==
    ClassifiedAtNight =>
        <<engine.new_status, engine.new_reason>> =
            IF engine.power >= 0
            THEN NightTable(engine.current_status, engine.current_reason, engine.power > 0)
            ELSE <<engine.current_status, engine.current_reason>>

\* scenario A: healthy, power 0 at night -> dormant with the night reason
C1_Witness ==
    /\ ClassifiedAtNight
    /\ engine.current_status = "green" /\ engine.power = 0
    /\ engine.new_status = "Moon" /\ engine.new_reason = MoonReason

(***************************************************************************)
(* C2. Day window transitions.                                             *)
(***************************************************************************)
ClassifiedByDay == engine.pc = "out" /\ ~engine.is_moon_time_period

\* positions of the events whose code the severity lookup maps to red
RedPositions ==
    {i \in 1 .. Len(engine.messages) :
        /\ engine.messages[i] \in DOMAIN engine.color_map
        /\ engine.color_map[engine.messages[i]] = "red"}

\* the first of them, in provider-return order
FirstRedPosition == CHOOSE i \in RedPositions : \A j \in RedPositions : i <= j

RepeatedCycle ==
    /\ cycle.n >= 1 /\ cycle'.n = cycle.n + 1
    /\ cycle'.device = cycle.device
    /\ cycle'.power = cycle.power
    /\ cycle'.is_moon_time_period = cycle.is_moon_time_period
    /\ cycle'.red_error_code = cycle.red_error_code
    /\ cycle'.readOk = cycle.readOk
    /\ cycle'.update_success = cycle.update_success

\* C3 as stated: the second of two cycles run in a row with identical inputs
\* leaves last-status-change where the first left it and publishes no event.
C3_SecondRunSilent ==
    [][RepeatedCycle =>
        /\ deviceStatus'[cycle'.device].lastStatusChangeTime =
              deviceStatus[cycle'.device].lastStatusChangeTime
        /\ ~cycle'.sns_success]_vars

(***************************************************************************)
(* C4. Aggregate invariant of the site status records.                     *)
(***************************************************************************)
\* the documented aggregate of a record's three sets
Aggregate(rec) ==
    IF rec.RedInverters # {} THEN "red"
    ELSE IF rec.MoonInverters # {} /\ rec.GreenInverters = {} THEN "moon"
    ELSE "green"

\* C4: every site status record the aggregator has written is fault iff its
\* fault set is non-empty, dormant iff its fault set is empty, its dormant set
\* non-empty and its healthy set empty, and healthy otherwise.
C4_AggregateInvariant ==
    \A s \in Systems :
        systemStatus[s].present =>
            /\ systemStatus[s].status = "red" <=> systemStatus[s].RedInverters # {}
            /\ systemStatus[s].status = "moon" <=>
                    /\ systemStatus[s].RedInverters = {}
                    /\ systemStatus[s].MoonInverters # {}
                    /\ systemStatus[s].GreenInverters = {}
            /\ systemStatus[s].status = Aggregate(systemStatus[s])

\* a record written for a site with one inverter in fault and one healthy
C4_Witness ==
    /\ systemStatus["s1"].present
    /\ systemStatus["s1"].RedInverters = {"d1"}
    /\ systemStatus["s1"].GreenInverters = {"d2"}
    /\ systemStatus["s1"].status = "red"

(***************************************************************************)
(* C5 - C8. The timer handler.                                             *)
(***************************************************************************)
\* this step is the return of invocation k of process_incident_notification
HandlerReturns(k) == handler[k].pc = "cleanup" /\ handler'[k].pc = "idle"

\* the timer of invocation k fired while the incident's device was stored
\* with this status
FiredWith(k, status) ==
    \E s \in schedules :
        /\ s.name = ScheduleName(handler[k].incident_id, handler[k].user_id)
        /\ s.fired_device = status

\* C5 as stated, for the invocations none of whose table calls fails: when
\* the timer fires while the incident's device is stored healthy and the
\* handler loads the incident as pending or dismissed, the handler returns
\* with the incident dismissed and without having sent an escalation email.
C5_RecoveredIsDismissed ==
    [][\A k \in Slots :
        (/\ HandlerReturns(k)
         /\ ~handler[k].table_failed
         /\ handler[k].incident_status \in {"pending", "dismissed"}
         /\ FiredWith(k, "green"))
        => /\ incidents'[handler[k].incident_id].status = "dismissed"
           /\ ~handler[k].email_sent]_vars

\* C6 as stated, for the invocations none of whose table calls fails: when
\* the timer fires while the incident's device is stored in fault, the
\* handler loads the incident as pending and reads the device as in fault,
\* and the device is still in fault when the handler returns, the incident
\* is escalated ('processed') and exactly one escalation email was sent for
\* it.
C6_FaultIsEscalatedOnce ==
    [][\A k \in Slots :
        (/\ HandlerReturns(k)
         /\ ~handler[k].table_failed
         /\ handler[k].incident_status = "pending"
         /\ handler[k].current_status = "red"
         /\ FiredWith(k, "red")
         /\ StoredStatus(handler[k].device_id) = "red")
        => /\ incidents'[handler[k].incident_id].status = "processed"
           /\ emails'[handler[k].incident_id] = 1]_vars

\* C7 as stated: the stored status of an incident changes only from pending
\* to dismissed or from pending to escalated ('processed' by the timer
\* handler, 'escalated' by the recipient); a dismissed or escalated incident
\* keeps its status.
C7_TerminalStatuses ==
    [][\A id \in Uuids :
        (incidents[id].present /\ incidents'[id].status # incidents[id].status)
        => /\ incidents[id].status = "pending"
           /\ incidents'[id].status \in {"dismissed", "processed", "escalated"}]_vars

\* C8 as stated: however often the timer handler is invoked for one timer, one
\* after the other or overlapping, at most one escalation email is sent for
\* the incident.
C8_AtMostOneEmail == \A id \in Uuids : emails[id] <= 1

(***************************************************************************)
(* C9. Incident creation.                                                  *)
(***************************************************************************)
\* this step is notify_user handling a change event whose new status is fault
HandlesFault(m) ==
    /\ <<"notify_user", m>> \in topic /\ <<"notify_user", m>> \notin topic'
    /\ m.newStatus = "red"

\* the incidents this step creates
NewIncidents == Created(incidents') \ Created(incidents)

\* C9 as stated: handling one change event whose new status is fault creates
\* exactly one pending incident for each recipient linked to the site who has
\* a technician_email, none for any other recipient, and arms one timer for
\* each incident it creates.
C9_OneIncidentPerRecipient ==
    [][\A m \in {delivery[2] : delivery \in topic} :
        HandlesFault(m) =>
            /\ \A u \in Users :
                  Cardinality({id \in NewIncidents : incidents'[id].userId = u}) =
                      IF u \in userAccess /\ Strip(TechnicianEmail(u)) # "" THEN 1 ELSE 0
            /\ \A id \in NewIncidents :
                  /\ incidents'[id].status = "pending"
                  /\ Cardinality({s \in schedules' \ schedules :
                                     s.incident_id = id}) = 1]_vars

(***************************************************************************)
(* C11. Incidents are created by the device entering fault.                *)
(***************************************************************************)
\* this step is notify_user handling message m
Handles(m) == <<"notify_user", m>> \in topic /\ <<"notify_user", m>> \notin topic'

\* C11 as stated: a message from whose handling an incident is created is a
\* change event with new status fault and a previous status that is not
\* fault.
C11_CreatedOnEnteringFault ==
    [][\A m \in {delivery[2] : delivery \in topic} :
        (Handles(m) /\ NewIncidents # {})
            => (m.newStatus = "red" /\ m.previousStatus # "red")]_vars

(***************************************************************************)
(* C10. Every incident is resolved.                                        *)
(***************************************************************************)
\* C10 as stated: with a scheduler that fires every armed timer, every
\* incident that is created eventually has a terminal status.
C10_EventuallyTerminal ==
    \A id \in Uuids :
        incidents[id].present ~>
            incidents[id].status \in {"dismissed", "processed", "escalated"}

(***************************************************************************)
(* C12. The sweeper creates no incident.                                   *)
(***************************************************************************)
\* this step belongs to a run of the sweeper: one of its own steps, or
\* notify_user handling a message the sweeper published
ReminderStep ==
    \/ reminder' # reminder
    \/ sweeps' # sweeps
    \/ \E m \in {delivery[2] : delivery \in topic} :
          Handles(m) /\ m.type = "Daily Reminder"

\* C12 as stated: no step of a sweeper run, the handling of the reminder
\* messages included, changes the incident records or the timers.
C12_SweeperCreatesNothing ==
    [][ReminderStep => (incidents' = incidents /\ schedules' = schedules)]_vars

(***************************************************************************)
(* C13. One reminder for each device long enough in fault.                 *)
(***************************************************************************)
\* C13 as stated, for the runs whose calls all succeed: a run sends one
\* reminder for each device that is in fault since the threshold or longer,
\* none for another device; and a run that repeats the run before it, at the
\* same instant over the same records, sends what that run sent.
C13_OneReminderPerDueDevice ==
    /\ \A i \in 1 .. Len(sweeps) :
          sweeps[i].clean =>
              \A d \in Devices :
                  sweeps[i].sent[d] = IF d \in sweeps[i].due THEN 1 ELSE 0
    /\ \A i \in 1 .. Len(sweeps) - 1 :
          (sweeps[i].clean /\ sweeps[i + 1].clean /\ sweeps[i + 1].repeat)
              => sweeps[i + 1].sent = sweeps[i].sent

(***************************************************************************)
(* C14. Two invocations of the aggregator for one site.                    *)
(***************************************************************************)
\* the stored record of site s holds the sets and the status computed from
\* the device records as they are now
Converged(s) ==
    LET current == GetInverterStatuses(s, TRUE)
    IN /\ systemStatus[s].GreenInverters = current.green
       /\ systemStatus[s].RedInverters = current.red
       /\ systemStatus[s].MoonInverters = current.moon
       /\ systemStatus[s].status =
              DetermineSystemStatus(current.green, current.red, current.moon)

\* two inverters of the site changed state, each record written before its
\* event was published and still as the event tells; the two invocations
\* these events started have returned, no table call of theirs having failed
BothCompleted ==
    /\ published = 2
    /\ \A delivery \in topic : delivery[1] # "update_status"
    /\ \A k \in Slots : agg[k].pc = "idle" /\ agg[k].returned /\ ~agg[k].failed
    /\ agg[1].msg.deviceId # agg[2].msg.deviceId
    /\ \A k \in Slots : deviceStatus[agg[k].msg.deviceId].status = agg[k].msg.newStatus

\* the scan of each of the two invocations returned the device records as
\* they are now: both writes came before both reads
ScannedCurrent ==
    \A k \in Slots : agg[k].inverter_statuses = GetInverterStatuses("s1", TRUE)

PublishesEvent == published' = published + 1

\* C15: when a polling cycle publishes a change event, its store write has
\* succeeded and the record of the device holds the new status and the new
\* reason of the event; no event is published when the write failed.
C15_WriteBeforeEvent ==
    [][PublishesEvent =>
         /\ cycle'.update_success
         /\ deviceStatus'[cycle'.device].status = cycle'.new_status
         /\ deviceStatus'[cycle'.device].reason = cycle'.new_reason]_vars

\* a cycle has turned the inverter to fault and published the event
C15_Witness ==
    /\ cycle.sns_success
    /\ published > 0
    /\ cycle.current_status = "green"
    /\ cycle.new_status = "red"
    /\ deviceStatus[cycle.device].status = "red"

\* this step changes the stored status or reason of inverter d
RecordsChange(d) ==
    \/ deviceStatus'[d].status # deviceStatus[d].status
    \/ deviceStatus'[d].reason # deviceStatus[d].reason

\* C16: a cycle that changes the stored status or reason of an inverter
\* publishes the change event of that change, with the stored pair as the
\* previous one and the written pair as the new one. (A cycle whose write
\* fails records no change and, by C15, publishes nothing.)
C16_ChangeIsPublished ==
    [][\A d \in Devices :
         RecordsChange(d) =>
             /\ PublishesEvent
             /\ cycle'.device = d
             /\ cycle'.current_status = deviceStatus[d].status
             /\ cycle'.current_reason = deviceStatus[d].reason
             /\ cycle'.new_status = deviceStatus'[d].status
             /\ cycle'.new_reason = deviceStatus'[d].reason]_vars

\* this step is a polling cycle of inverter d whose computed status and
\* reason are the stored ones
UnchangedCycle(d) ==
    /\ cycle'.n = cycle.n + 1
    /\ cycle'.device = d
    /\ cycle'.new_status = deviceStatus[d].status
    /\ cycle'.new_reason = deviceStatus[d].reason

\* C17: a cycle whose computed status and reason equal the stored pair leaves
\* status, reason and last-status-change of every device record as they were.
C17_UnchangedCycleKeepsChangeTime ==
    [][(\E d \in Devices : UnchangedCycle(d)) =>
         \A e \in Devices :
             /\ deviceStatus'[e].status = deviceStatus[e].status
             /\ deviceStatus'[e].reason = deviceStatus[e].reason
             /\ deviceStatus'[e].lastStatusChangeTime
                    = deviceStatus[e].lastStatusChangeTime]_vars

ComparesAndPuts(k) == agg[k].pc = "sys_put" /\ agg'[k].pc # "sys_put"

\* the lists invocation k scanned are those of the device records, and they
\* and their status are those of the stored record of its site
SameAsStored(k) ==
    LET s == agg[k].inverter_statuses
        stored == systemStatus[agg[k].msg.pvSystemId]
    IN /\ s = GetInverterStatuses(agg[k].msg.pvSystemId, TRUE)
       /\ stored.present
       /\ stored.GreenInverters = s.green
       /\ stored.RedInverters = s.red
       /\ stored.MoonInverters = s.moon
       /\ stored.status = DetermineSystemStatus(s.green, s.red, s.moon)

\* C19: when the lists and the status update_system_status computed are those
\* of the stored site record, it puts nothing and returns: the site record and
\* the daily logs are as before and the site's daily log is not gone on to.
C19_NoWriteWhenSame ==
    [][\A k \in Slots :
         (ComparesAndPuts(k) /\ SameAsStored(k)) =>
             /\ systemStatus' = systemStatus
             /\ dailyStatus' = dailyStatus
             /\ agg'[k].pc = "idle"]_vars

(***************************************************************************)
(* C20. A failing device does not stop the sweep.                          *)
(***************************************************************************)
\* this step collects the result False for inverter d
FailsFor(d) == polling.result[d] = "none" /\ polling'.result[d] = "False"

\* C20: a cycle that fails leaves the sweep running with every other listed
\* inverter still to be processed, and a sweep returns only when every
\* inverter it listed has run to its result, True or False.
C20_FailureDoesNotStopSweep ==
    [][/\ \A d \in Devices :
             FailsFor(d) => /\ polling'.pc = "run"
                            /\ polling'.todo = polling.todo \ {d}
       /\ (polling.pc = "run" /\ polling'.pc = "idle") =>
             \A d \in polling.listed : polling'.result[d] # "none"]_vars

\* a sweep over both inverters has returned, the first cycle collected
\* having failed and the other one succeeded
C20_Witness ==
    /\ polling.pc = "idle"
    /\ polling.listed = Devices
    /\ \E d \in Devices, e \in Devices :
          polling.result[d] = "False" /\ polling.result[e] = "True"

(***************************************************************************)
(* C21. The timer handler always attempts to remove its registration.      *)
(***************************************************************************)
\* invocation k of process_incident_notification returns in this step
Returns(k) == handler[k].pc # "idle" /\ handler'[k].pc = "idle"

\* this step is the delete_schedule call of cleanup_schedule for the
\* registration of the incident and recipient invocation k was given: the
\* registration is gone afterwards, or the call failed and nothing changed
AttemptsCleanup(k) ==
    /\ handler[k].pc = "cleanup"
    /\ \/ schedules' = {s \in schedules :
                           s.name # ScheduleName(handler[k].incident_id,
                                                 handler[k].user_id)}
       \/ schedules' = schedules

\* C21: an invocation of process_incident_notification returns only by the
\* step that calls cleanup_schedule, whatever path it took: incident
\* missing, dismissed, device recovered, profile missing, no contact, send
\* failed, or an exception caught by the outer except clause.
C21_CleanupOnEveryPath ==
    [][\A k \in Slots : Returns(k) => AttemptsCleanup(k)]_vars

\* an invocation whose formatting step raised is about to call
\* cleanup_schedule, its incident still pending and its registration there
C21_Witness ==
    \E k \in Slots :
        /\ handler[k].pc = "cleanup"
        /\ handler[k].raised
        /\ incidents[handler[k].incident_id].status = "pending"
        /\ \E s \in schedules :
              s.name = ScheduleName(handler[k].incident_id, handler[k].user_id)

(***************************************************************************)
(* C22. An incident is never resurrected.                                  *)
(***************************************************************************)
\* this step creates an incident
CreatesIncident == Created(incidents') # Created(incidents)

\* C22: no step sets the status of an existing incident to pending when it
\* was not pending, and a step that creates an incident for a later fault
\* event gives it an id no incident has and leaves every existing incident
\* as it was.
C22_NeverResurrected ==
    [][\A id \in Created(incidents) :
          /\ incidents'[id].present
          /\ incidents[id].status # "pending" => incidents'[id].status # "pending"
          /\ CreatesIncident => incidents'[id] = incidents[id]]_vars

\* a second incident of one recipient for one device is pending beside the
\* first one, which has left pending
C22_Witness ==
    \E a \in Created(incidents), b \in Created(incidents) :
        /\ a # b
        /\ incidents[a].deviceId = incidents[b].deviceId
        /\ incidents[a].userId = incidents[b].userId
        /\ incidents[a].status \in {"dismissed", "processed", "escalated"}
        /\ incidents[b].status = "pending"

(***************************************************************************)
(* C23. What a terminal status tells.                                      *)
(***************************************************************************)
\* invocation k of the timer handler is writing the status of incident id
\* in this step
MarkedBy(k, id) ==
    /\ handler[k].pc \in {"mark_processed", "mark_dismissed"}
    /\ handler[k].incident_id = id
    /\ handler'[k].pc = "cleanup"

\* C23 as stated: an incident becomes escalated ('processed' by the timer
\* handler, 'escalated' by the recipient) only in a timer invocation that
\* read its device as in fault and sent the escalation email, and becomes
\* dismissed only by the recipient's action or in a timer invocation that
\* read its device as healthy; so every escalated or dismissed incident of
\* a reachable state has that history.
C23_TerminalStatusHistory ==
    [][\A id \in Uuids :
        (incidents[id].present /\ incidents'[id].status # incidents[id].status)
        => /\ incidents'[id].status \in {"processed", "escalated"} =>
                 \E k \in Slots : /\ MarkedBy(k, id)
                                  /\ handler[k].current_status = "red"
                                  /\ handler[k].email_sent
           /\ incidents'[id].status = "dismissed" =>
                 \/ handler' = handler
                 \/ \E k \in Slots : /\ MarkedBy(k, id)
                                     /\ handler[k].current_status = "green"]_vars

(***************************************************************************)
(* C24. A healthy record has no reason.                                    *)
(***************************************************************************)
\* C24: whatever day and night cycles ran from the default record, a record
\* the engine wrote with status green has an empty reason, and so has the
\* (status, reason) the last cycle computed.
C24_GreenHasNoReason ==
    /\ \A d \in Devices :
          (deviceStatus[d].present /\ deviceStatus[d].status = "green")
              => deviceStatus[d].reason = ""
    /\ cycle.new_status = "green" => cycle.new_reason = ""

\* a night cycle read the record as green, written so after a fault, found
\* power and wrote green again, new_reason being the reason it read
C24_Witness ==
    /\ cycle.n = MaxCycles
    /\ cycle.is_moon_time_period /\ cycle.power > 0
    /\ cycle.readOk /\ cycle.current_status = "green"
    /\ ~cycle.status_changed /\ cycle.update_success
    /\ deviceStatus[cycle.device].present
    /\ deviceStatus[cycle.device].status = "green"
    /\ deviceStatus[cycle.device].lastStatusChangeTime # NoneTime

(***************************************************************************)
(* C25. The site record partitions the site's device records.              *)
(***************************************************************************)
\* invocation k of the update_status lambda returns in this step
Completes(k) == agg[k].pc # "idle" /\ agg'[k].pc = "idle"

\* the stored record of site s sorts the device records of s as stored
Partitions(rec, s) ==
    LET items == {d \in Devices : deviceStatus[d].present /\ SystemOf(d) = s}
    IN /\ rec.present
       /\ rec.GreenInverters \cap rec.RedInverters = {}
       /\ rec.GreenInverters \cap rec.MoonInverters = {}
       /\ rec.RedInverters \cap rec.MoonInverters = {}
       /\ rec.GreenInverters \cup rec.RedInverters \cup rec.MoonInverters = items
       /\ \A d \in items :
             /\ deviceStatus[d].status = "green" => d \in rec.GreenInverters
             /\ deviceStatus[d].status = "red" => d \in rec.RedInverters
             /\ deviceStatus[d].status = "Moon" => d \in rec.MoonInverters
       /\ rec.TotalInverters = Cardinality(rec.GreenInverters)
                                + Cardinality(rec.RedInverters)
                                + Cardinality(rec.MoonInverters)

\* C25 as stated: when an invocation returns, no device record having been
\* written while it ran, the record stored for the event's site has three
\* pairwise disjoint sets whose union is the set of the site's device
\* records, each inverter in the set of its stored status, and a total
\* equal to the sum of the three sizes.
C25_RecordPartitionsDevices ==
    [][\A k \in Slots :
          (Completes(k) /\ systemStatus'[agg[k].msg.pvSystemId].present)
              => Partitions(systemStatus'[agg[k].msg.pvSystemId],
                            agg[k].msg.pvSystemId)]_vars

(***************************************************************************)
(* C26. get_device_flowdata terminates.                                    *)
(***************************************************************************)
\* the calls get_device_flowdata has made after its first one
Retries(f) == f.attempt - 1

\* C26: get_device_flowdata calls again only after a response that is
\* online with null data, at most 5 times; it returns such a response only
\* when its attempts are used up, and the power taken from it is zero; a
\* response that is offline is returned by the attempt that received it
\* and its power is zero; and every call of get_device_flowdata returns.
C26_FlowdataTerminates ==
    /\ [](/\ Retries(flow) <= 5
          /\ (flow.pc = "request" /\ flow.attempt > 1) =>
                 flow.response.isOnline /\ flow.response.data = NoData
          /\ (flow.pc = "done" /\ flow.response.isOnline
                               /\ flow.response.data = NoData) =>
                 flow.attempt = max_attempts /\ FlowPower(flow.response) = 0
          /\ (flow.pc = "done" /\ ~flow.response.isOnline) =>
                 FlowPower(flow.response) = 0)
    /\ (flow.pc = "request" ~> flow.pc = "done")

\* every attempt found the inverter online with null data: the last
\* response is returned
C26_Witness ==
    /\ flow.pc = "done"
    /\ flow.attempt = max_attempts
    /\ flow.response = Body(TRUE, NoData)

(***************************************************************************)
(* C27. A failing telemetry request is retried, then read as zero power.   *)
(***************************************************************************)
\* this step is the rest of the cycle after api_request gave up
CycleAfterFailure ==
    /\ flow.pc = "done" /\ flow.raised = "exhausted"
    /\ cycle'.n = cycle.n + 1

\* C27: one call of api_request makes at most MAX_RETRIES requests, and the
\* cycle whose api_request gave up after them goes on: it computes the
\* (status, reason) of a reading of zero power and writes it.
C27_FailureIsZeroPower ==
    [][/\ flow'.tries < MAX_RETRIES
       /\ CycleAfterFailure =>
             /\ cycle'.power = 0
             /\ \E messages \in PollMessageLists :
                   /\ FirstRedCode(messages, SupabaseCodes) = cycle'.red_error_code
                   /\ <<cycle'.new_status, cycle'.new_reason>> =
                         Classify(cycle'.current_status, cycle'.current_reason, 0,
                                  cycle'.is_moon_time_period, messages, SupabaseCodes)
             /\ cycle'.update_success =>
                   /\ deviceStatus'[flow.device].present
                   /\ deviceStatus'[flow.device].status = cycle'.new_status
                   /\ deviceStatus'[flow.device].reason = cycle'.new_reason]_vars

\* a cycle whose three requests failed has written the inverter as in fault
\* with no production, in daylight
C27_Witness ==
    /\ flow.pc = "idle" /\ flow.raised = "exhausted"
    /\ cycle.n > 0 /\ ~cycle.is_moon_time_period /\ cycle.update_success
    /\ deviceStatus[cycle.device].status = "red"
    /\ deviceStatus[cycle.device].reason = NoProductionReason

(***************************************************************************)
(* C28. The timer handler notifies for a pending incident only.            *)
(***************************************************************************)
\* invocation k sends the escalation email in this step
Sends(k) == handler[k].pc = "send_email" /\ handler'[k].pc # "send_email"

\* invocation k loaded no incident, or one that was not pending
NotPending(k) == handler[k].incident_status # "pending"

\* the registration of the timer of invocation k is there
Registered(scheds, k) ==
    \E s \in scheds :
        s.name = ScheduleName(handler[k].incident_id, handler[k].user_id)

\* C28 as stated: the handler sends only for an incident it loaded as
\* pending; an invocation that loaded none, a dismissed one or one of
\* another status returns with no email sent and the registration of its
\* timer removed.
C28_NotifiesPendingOnly ==
    [][\A k \in Slots :
          /\ Sends(k) => ~NotPending(k)
          /\ (Returns(k) /\ NotPending(k)) =>
                /\ ~handler[k].email_sent
                /\ emails' = emails
                /\ ~Registered(schedules', k)]_vars

\* C28 with the removal as the code makes it: the handler sends only for
\* an incident it loaded as pending; an invocation that loaded none, a
\* dismissed one or one of another status returns with no email sent, by
\* the step that calls delete_schedule for its timer, which removes the
\* registration unless the call fails.
C28_NotifiesPendingOnlyAttemptsRemoval ==
    [][\A k \in Slots :
          /\ Sends(k) => ~NotPending(k)
          /\ (Returns(k) /\ NotPending(k)) =>
                /\ ~handler[k].email_sent
                /\ emails' = emails
                /\ AttemptsCleanup(k)]_vars

\* an invocation that loaded its incident as dismissed has marked it
\* processed without an email and is about to remove the registration
C28_Witness ==
    \E k \in Slots :
        /\ handler[k].pc = "cleanup"
        /\ handler[k].incident_status = "dismissed"
        /\ ~handler[k].email_sent
        /\ incidents[handler[k].incident_id].status = "processed"
        /\ Registered(schedules, k)

(***************************************************************************)
(* C29. The daily status log is append-only.                               *)
(***************************************************************************)
\* list a is the beginning of list b
IsPrefix(a, b) == Len(a) <= Len(b) /\ SubSeq(b, 1, Len(a)) = a

\* C29 as stated: every entry stored in the log of an inverter or a site
\* for a date stays in it at its position, whatever the interleaving of the
\* invocations that append and whether or not their read of the log
\* succeeds.
C29_DailyLogAppendOnly ==
    [][\A key \in DailyKeys : IsPrefix(dailyStatus[key], dailyStatus'[key])]_vars

(***************************************************************************)
(* C30. A write of the site record is logged.                              *)
(***************************************************************************)
\* invocation k puts the record of its site in this step
WritesRecord(k) == agg[k].pc = "sys_put" /\ systemStatus' # systemStatus

\* invocation k puts the day's log of its site in this step
WritesSiteLog(k) == agg[k].pc = "syslog_put" /\ dailyStatus' # dailyStatus

\* C30 as stated, for the calls that succeed: an invocation that writes a
\* new record of its site goes on to log_system_daily_status, and the log
\* it then writes is the one of the site for the local date of the event's
\* timestamp in the event's timezone, its last entry the new status with
\* that timestamp.
C30_WriteIsLogged ==
    [][\A k \in Slots :
          LET m == agg[k].msg
              key == <<m.pvSystemId, LocalDate(m.timestamp, m.timezone)>>
          IN /\ WritesRecord(k) => agg'[k].pc = "syslog_get"
             /\ WritesSiteLog(k) =>
                   /\ \A other \in DailyKeys \ {key} :
                         dailyStatus'[other] = dailyStatus[other]
                   /\ dailyStatus'[key][Len(dailyStatus'[key])] =
                         [status |-> systemStatus[m.pvSystemId].status,
                          time |-> m.timestamp]]_vars

(***************************************************************************)
(* C31. One log entry for each status change of a device.                  *)
(***************************************************************************)
\* the log of inverter d for some date is written in this step
LogWritten(d) == \E date \in Dates : dailyStatus'[<<d, date>>] # dailyStatus[<<d, date>>]

\* message m tells of a status change the engine recorded
TellsOfChange(m) ==
    /\ m.type = "Status Changed"
    /\ m.newStatus # m.previousStatus \/ m.newReason # m.previousReason

\* C31 as stated, its second half: the log of a device is written only by
\* an invocation of the aggregator that handles a message telling of a
\* status change of that device, so nothing else adds an entry to it.
C31_LoggedOnChangeOnly ==
    [][\A d \in Devices :
          LogWritten(d) =>
              \E k \in Slots : /\ agg[k].pc = "log_put"
                               /\ agg[k].msg.deviceId = d
                               /\ TellsOfChange(agg[k].msg)]_vars

(***************************************************************************)
(* C32. is_moon_time: the night window by the site's local time.           *)
(***************************************************************************)
\* the hours a zone is behind UTC in winter
StandardOffset(zone) ==
    IF zone = "America/New_York" THEN 5
    ELSE IF zone = "America/Chicago" THEN 6
    ELSE 7

\* the local time of day in a zone at an instant: daylight saving time runs
\* from 02:00 standard time of its first day to 02:00 daylight time of its last
SiteLocalTime(zone, utc) ==
    LET std == StandardOffset(zone) * MinutesPerHour
        summer == DstStart <= utc - std /\ utc - std + MinutesPerHour < DstEnd
    IN TimeOfDay(((utc - std + (IF summer THEN MinutesPerHour ELSE 0)) % MinutesPerDay))

\* time of day t is at or after sunset - 1 hour, or at or before sunrise + 1 hour
InNightWindow(t, sun_data) ==
    \/ t >= TimeOfDay(Strptime(sun_data.sunset) - MinutesPerHour)
    \/ t <= TimeOfDay(Strptime(sun_data.sunrise) + MinutesPerHour)

\* a cycle has computed its window from sun data whose texts are read
WindowComputed ==
    /\ window.pc = "classify"
    /\ window.sun_data # NoSunData
    /\ ~MoonTimeRaises(window.sun_data.sunrise, window.sun_data.sunset)

\* C32 as stated: for a site with a timezone, is_moon_time is true exactly
\* when the site's local time of day is at or after sunset - 1 hour or at
\* or before sunrise + 1 hour.
C32_NightBySiteTime ==
    (WindowComputed /\ window.site_zone # "None") =>
        (window.is_moon_time_period <=>
            InNightWindow(SiteLocalTime(window.site_zone, window.utc_now), window.sun_data))

\* C32 amended: is_moon_time is true exactly when the time of day it
\* compares is at or after sunset - 1 hour or at or before sunrise + 1
\* hour; that time is the site's local time when the timezone it was given
\* is America/New_York or America/Chicago, and the server's clock time for
\* any other timezone or none.
C32_NightByComparedTime ==
    WindowComputed =>
        (window.is_moon_time_period <=>
            InNightWindow(
                IF window.system_timezone \in {"America/New_York", "America/Chicago"}
                THEN SiteLocalTime(window.system_timezone, window.utc_now)
                ELSE TimeOfDay((window.utc_now % MinutesPerDay)
                                   - ServerOffsetHours * MinutesPerHour),
                window.sun_data))

\* sunrise 06:45, sunset 18:30, 19:00 in New York: the night window
C32_Witness ==
    /\ WindowComputed
    /\ window.system_timezone = "America/New_York"
    /\ window.sun_data = [sunrise |-> <<6, 45, "AM">>, sunset |-> <<6, 30, "PM">>]
    /\ SiteLocalTime("America/New_York", window.utc_now) = 19 * MinutesPerHour
    /\ window.is_moon_time_period

(***************************************************************************)
(* C33. The timer of an incident fires at the incident's deadline.         *)
(***************************************************************************)
\* C33 as stated: the one-shot schedule armed for an incident is set for
\* the instant stored as the incident's expiresAt, creation time plus one
\* delay.
C33_TimerAtDeadline ==
    \A s \in schedules :
        incidents[s.incident_id].present =>
            s.schedule_time = incidents[s.incident_id].expiresAt

(***************************************************************************)
(* C34. Timers are keyed by incident and recipient.                        *)
(***************************************************************************)
\* C34 as stated: arming the timer of an incident that has none, the
\* scheduler accepting the call, leaves that incident with its timer
\* whatever timers other incidents have; and removing the timer of an
\* incident leaves the timers of every other incident in place.
C34_TimersIndependent ==
    [][\A incident_id \in TimerUuids, user_id \in TimerUsers :
          /\ ArmTimer(incident_id, user_id, TRUE) =>
                 ScheduleOf(schedules', incident_id, user_id) # {}
          /\ CleanupSchedule(incident_id, user_id, TRUE) =>
                 \A s \in schedules :
                     (s.incident_id # incident_id \/ s.user_id # user_id) => s \in schedules']_vars

(***************************************************************************)
(* C35. A failed read of the record makes no change.                       *)
(***************************************************************************)
\* C35 as stated: a cycle whose read of the device's record fails, while
\* the record holds the status and reason the cycle computes, publishes no
\* change event and does not move the record's last-status-change forward.
C35_FailedReadIsNoChange ==
    [][\A d \in Devices :
          (/\ UnchangedCycle(d)
           /\ deviceStatus[d].present
           /\ ~cycle'.readOk)
          => /\ published' = published
             /\ deviceStatus'[d].lastStatusChangeTime
                    <= deviceStatus[d].lastStatusChangeTime]_vars

(***************************************************************************)
(* C36. A failed rescan leaves the site record alone.                      *)
(***************************************************************************)
\* the scan of invocation k failed: it returned no inverter although the
\* site of its message has device records (none is written while it runs)
RescanFailed(k) ==
    /\ agg[k].pc = "sys_put"
    /\ agg[k].inverter_statuses = [green |-> {}, red |-> {}, moon |-> {}]
    /\ \E d \in Devices : deviceStatus[d].present /\ SystemOf(d) = agg[k].msg.pvSystemId

\* C36 as stated: an invocation whose rescan of the device records failed
\* leaves the stored record of the site as it was.
C36_FailedRescanKeepsRecord ==
    [][\A k \in Slots : RescanFailed(k) => systemStatus' = systemStatus]_vars

(***************************************************************************)
(* C37. Healthy means producing; fault is left only with production.       *)
(***************************************************************************)
\* the classification was applied to a current status of the three
Classified == engine.pc = "out" /\ engine.current_status \in {"green", "red", "Moon"}

CycleWithoutWindow ==
    /\ window.pc = "idle"
    /\ cycle.n > 0
    /\ \/ window.sun_data = NoSunData
       \/ MoonTimeRaises(window.sun_data.sunrise, window.sun_data.sunset)

\* C38: a cycle without sun data, or whose window computation raised,
\* classifies by the day rules: healthy with production, fault without,
\* whatever the clock reads and whatever the current status is.
C38_DayRulesWithoutWindow ==
    CycleWithoutWindow =>
        /\ ~cycle.is_moon_time_period
        /\ <<cycle.new_status, cycle.new_reason>> =
              IF cycle.power > 0 THEN <<"green", "">>
              ELSE IF Truthy(cycle.red_error_code)
                   THEN <<"red", ErrorReason(cycle.red_error_code)>>
                   ELSE <<"red", NoProductionReason>>

\* a dormant device polled without sun data: it goes to fault
C38_Witness ==
    /\ CycleWithoutWindow
    /\ window.sun_data = NoSunData
    /\ cycle.current_status = "Moon"
    /\ cycle.new_status = "red"

(***************************************************************************)
(* C39. A sweep in batches.                                                *)
(***************************************************************************)
\* the batch of the entry at position i, batches counted from 0
BatchOf(i) == (i - 1) \div batch_size

\* the entries a worker is processing
Running == {i \in Entries : pool.future[i] = "running"}

\* C39: no entry of the list is processed twice and none beyond the list is
\* processed; when the sweep returns every entry was processed once; the
\* entries submitted and not finished are of the current batch, batches
\* being the consecutive slices of batch_size positions; entries processed
\* at the same time are of the same batch; and an entry of batch k+1 is
\* submitted only when every entry of batch k has finished.
C39_EachOnceInBatches ==
    /\ \A i \in Entries : pool.calls[i] <= 1 /\ (i > pool.len => pool.calls[i] = 0)
    /\ (pool.pc = "idle" /\ pool.n > 0) =>
           \A i \in 1 .. pool.len : pool.calls[i] = 1 /\ pool.future[i] = "collected"
    /\ \A i \in Entries :
           pool.future[i] \in {"pending", "running"} => BatchOf(i) = pool.batch_num
    /\ Cardinality(Running) <= batch_size
    /\ \A i \in Running, j \in Running : BatchOf(i) = BatchOf(j)
    /\ \A i \in Entries, j \in Entries :
           (BatchOf(j) = BatchOf(i) + 1 /\ pool.future[j] # "none") =>
               pool.future[i] \in {"done", "collected"}

\* two entries of the second batch are processed at the same time
C39_Witness ==
    /\ pool.batch_num = 1
    /\ Cardinality(Running) = batch_size
    /\ \A i \in Entries : BatchOf(i) = 0 => pool.calls[i] = 1

(***************************************************************************)
(* C40. A lookup accepts a cached value by that value's own expiry.        *)
(***************************************************************************)
\* C40 as stated: a lookup that returns a cached value has tested the
\* expires_at stored by the fetch of that value, not that of another
\* fetch, and that instant had not passed when it tested.
C40_AcceptedByOwnExpiry ==
    \A w \in Workers :
        cache.worker[w].result = "cached" =>
            /\ cache.worker[w].checked = cache.worker[w].value
            /\ cache.worker[w].at < cache.own[cache.worker[w].value]

====
